---- MODULE Spec2Model ----
(***************************************************************************)
(* Streaming session core of the bulut chat widget client                  *)
(* (src/unnamed/part_001): the TTS WebSocket collection with its retry     *)
(* ladder and SSE fallback inside a stream controller, the STT WebSocket   *)
(* session with its promise-chained send queue, and the pure helpers.      *)
(*                                                                         *)
(* JavaScript runs one task at a time: every action below is one task      *)
(* (a socket event, a timer, an API call) together with all the microtask  *)
(* continuations (promise reactions, resumed awaits) it triggers.          *)
(***************************************************************************)
EXTENDS Integers, Sequences, FiniteSets, TLC

VARIABLES
    ctl,    \* the stream controller (agentVoice/Text/ResumeStream closure state)
    tts,    \* one collectTtsViaWebSocket call: its locals, its socket, its frames
    stt,    \* one startSttWebSocketStream session
    pure,   \* input / output of the pure helpers
    agent,  \* the page: its resume storage and the agent loop of its stream
    play    \* the audio playback module state and its playback tasks

vars == <<ctl, tts, stt, pure, agent, play>>

----------------------------------------------------------------------------
(* Bounds *)

MaxSeq == 2          \* audio seq numbers range over 0..MaxSeq
MaxTtsMsgs == 3      \* audio messages delivered within one call
MaxSttCalls == 3     \* pushChunk (non-empty) and stop() calls on one STT session
MaxAgentMsgs == 3    \* messages delivered on one agent socket
MaxBatches == 2      \* tool_calls messages among them
MaxReloads == 2      \* page reloads
MaxStops == 2        \* stopActiveAudioPlayback() calls

----------------------------------------------------------------------------
(* JavaScript values *)

\* A numeric field that is missing from a payload (typeof x !== "number").
Absent == 0 - 1

\* The values an error's `retryable` field is drawn from, as JS literals.
JsVals == {"true", "false", "undefined", "null", "0", "1", "''", "'x'"}

\* Boolean(v)
ToBoolean(v) == v \in {"true", "1", "'x'"}

\* v !== false
NotStrictlyFalse(v) == v # "false"

\* A thrown value: kind is "object" (non-null object), "null" or "string";
\* has says whether the object has a `retryable` property ("retryable" in e).
ErrorValue(kind, has, retryable, message) ==
    [kind |-> kind, has |-> has, retryable |-> retryable, message |-> message]

NullError == ErrorValue("null", FALSE, "undefined", "")

buildError(message, retryable) ==
    ErrorValue("object", TRUE, IF retryable THEN "true" ELSE "false", message)

TTS_WS_RETRY_DELAYS_MS == <<250, 750, 1500>>

\* Mutant: a repeated seq is accepted again.
shouldAcceptAudioSeq_geq(incomingSeq, highestSeqSeen) == incomingSeq >= highestSeqSeen

\* Mutant: seq 0 is accepted like a new chunk.
shouldAcceptAudioSeq_orZero(incomingSeq, highestSeqSeen) ==
    incomingSeq > highestSeqSeen \/ incomingSeq = 0

shouldAcceptAudioSeq(incomingSeq, highestSeqSeen) == incomingSeq > highestSeqSeen

\* Mutant: every failure counts as retryable.
shouldFallbackToSse_always(error) == TRUE

shouldFallbackToSse(error) ==
    IF error.kind = "object" /\ error.has
    THEN ToBoolean(error.retryable)
    ELSE TRUE

----------------------------------------------------------------------------
(* TTS WebSocket collection inside a stream controller *)

Variants == {"voice", "text", "resume"}

\* createRequestId(): one fresh id per collectTtsViaWebSocket call.
RequestIds == {"r1"}

\* A delivered message: its type, its seq / last_seq, its retryable field.
Msg(type, seq, retryable) == [type |-> type, seq |-> seq, retryable |-> retryable]

NoMsg == Msg("none", Absent, "undefined")
Pending == [mode |-> "pending", error |-> NullError]

TtsIdle ==
    [ pc             |-> "idle",       \* idle | connecting | sleeping | returned | thrown
      requestId      |-> "r1",
      attempt        |-> 0,
      highestSeqSeen |-> 0,
      chunks         |-> <<>>,         \* each buffered chunk, named by the seq it came with
      done           |-> FALSE,
      finalError     |-> NullError,
      readyState     |-> "NONE",       \* of the current attempt's socket
      outcome        |-> Pending,      \* how the current connectOnce promise settled
      lastMsg        |-> NoMsg,        \* last message delivered on the current socket
      sent           |-> <<>>,         \* frames sent on the call's sockets, in order
      delaysWaited   |-> <<>>,         \* arguments of the sleep() calls, in order
      socketsOpened  |-> 0,            \* new WebSocket(wsUrl) calls
      startsSent     |-> 0,            \* start frames sent
      thrownError    |-> NullError,
      msgCount       |-> 0 ]

CtlInit(v) ==
    [ variant      |-> v,
      isStopped    |-> FALSE,
      pc           |-> "agent",  \* agent | tts_ws | tts_sse | playing | resolved | rejected
      activeSocket |-> "agent",  \* null | agent | tts
      sseCalls     |-> 0,        \* collectTtsViaSse calls
      cursorHidden |-> FALSE ]   \* hideAgentCursor() was invoked

StartFrame(requestId, highestSeqSeen) ==
    [type |-> "start", request_id |-> requestId, last_seq |-> highestSeqSeen]

\* Mutant: the ack names the next seq expected instead of the last one held.
AckFrame_next(requestId, highestSeqSeen) ==
    [type |-> "ack", request_id |-> requestId, last_seq |-> highestSeqSeen + 1]

AckFrame(requestId, highestSeqSeen) ==
    [type |-> "ack", request_id |-> requestId, last_seq |-> highestSeqSeen]

\* `if (!isStopped) hideAgentCursor()`
HideCursorUnlessStopped(c) ==
    [c EXCEPT !.cursorHidden = @ \/ ~c.isStopped]

\* The caller after collectTtsViaWebSocket returned: play or finish.
AfterCollect(c, nChunks) ==
    IF ~c.isStopped /\ nChunks > 0
    THEN [c EXCEPT !.pc = "playing"]
    ELSE [HideCursorUnlessStopped(c) EXCEPT !.pc = "resolved"]

\* Mutant: the caller falls back whenever the WebSocket collection failed.
CallerFallsBack_always(c, wsError) == TRUE

\* Mutant: the caller falls back only on a retryable failure.
CallerFallsBack_retryableOnly(c, wsError) ==
    ~c.isStopped /\ shouldFallbackToSse(wsError)

\* Whether the caller's catch block starts the SSE collection.
\* (The stopped flag is the only thing it looks at.)
CallerFallsBack(c, wsError) == ~c.isStopped

\* The caller's catch block around collectTtsViaWebSocket.
AfterWsThrow(c, wsError) ==
    IF CallerFallsBack(c, wsError)
    THEN [c EXCEPT !.pc = "tts_sse", !.sseCalls = @ + 1]
    ELSE [c EXCEPT !.pc = "resolved"]

\* Mutant: every reconnect waits the first ladder entry.
RetryDelay_first(attempt) == TTS_WS_RETRY_DELAYS_MS[1]

\* The delay slept before connection attempt number `attempt` (attempt > 0).
RetryDelay(attempt) == TTS_WS_RETRY_DELAYS_MS[attempt]

\* The catch block of the retry loop: rethrow or go round the loop and sleep.
RetryLoopCatch(c, t, error) ==
    IF ~shouldFallbackToSse(error) \/ t.attempt = Len(TTS_WS_RETRY_DELAYS_MS)
    THEN [ tts |-> [t EXCEPT !.pc = "thrown", !.thrownError = error],
           ctl |-> AfterWsThrow(c, error) ]
    ELSE [ tts |-> [t EXCEPT !.pc = "sleeping",
                             !.attempt = @ + 1,
                             !.delaysWaited = Append(@, RetryDelay(t.attempt + 1))],
           ctl |-> c ]

\* The connectOnce promise settles; the retry loop and the caller continue.
Settle(c, t, mode, error) ==
    LET t1 == [t EXCEPT !.outcome = [mode |-> mode, error |-> error],
                        !.lastMsg = NoMsg] IN
    IF mode = "resolve"
    THEN [ tts |-> [t1 EXCEPT !.pc = "returned"],
           ctl |-> AfterCollect(c, Len(t1.chunks)) ]
    ELSE RetryLoopCatch(c, t1, error)

\* finalize(mode, error): handlers detached, setSocket(null), promise settled.
finalize(c, t, mode, error) ==
    Settle([c EXCEPT !.activeSocket = "null"], t, mode,
           IF error = NullError THEN buildError("tts_ws_closed", TRUE) ELSE error)

connectOnce(c, t) ==
    IF c.isStopped
    THEN Settle(c, [t EXCEPT !.outcome = Pending], "reject",
                buildError("stream_stopped", FALSE))
    ELSE [ tts |-> [t EXCEPT !.pc = "connecting",
                             !.done = FALSE,
                             !.finalError = NullError,
                             !.readyState = "CONNECTING",
                             !.outcome = Pending,
                             !.lastMsg = NoMsg,
                             !.socketsOpened = @ + 1],
           ctl |-> [c EXCEPT !.activeSocket = "tts"] ]

\* socket.onopen
onopen(t) ==
    [t EXCEPT !.readyState = "OPEN",
              !.sent = Append(@, StartFrame(t.requestId, t.highestSeqSeen)),
              !.startsSent = @ + 1]

\* socket.onmessage, payload.type === "audio" with a string `audio`
onAudio(t, msgSeq) ==
    LET seq == IF msgSeq # Absent THEN msgSeq ELSE 0
        t1  == IF shouldAcceptAudioSeq(seq, t.highestSeqSeen)
               THEN [t EXCEPT !.chunks = Append(@, seq), !.highestSeqSeen = seq]
               ELSE t
        t2  == IF t1.readyState = "OPEN"
               THEN [t1 EXCEPT !.sent = Append(@, AckFrame(t1.requestId, t1.highestSeqSeen))]
               ELSE t1
    IN  [t2 EXCEPT !.lastMsg = Msg("audio", msgSeq, "undefined"),
                   !.msgCount = @ + 1]

\* Mutant: done completes the attempt whatever last_seq it reports.
onDone_noGapCheck(t, lastSeq) ==
    [t EXCEPT !.done = TRUE,
              !.readyState = "CLOSING",
              !.lastMsg = Msg("done", lastSeq, "undefined")]

\* Mutant: done completes the attempt only when last_seq is what was received.
onDone_exactOnly(t, lastSeq) ==
    LET streamLastSeq == IF lastSeq # Absent THEN lastSeq ELSE t.highestSeqSeen
        t1 == IF streamLastSeq # t.highestSeqSeen
              THEN [t EXCEPT !.finalError = buildError("tts_ws_sequence_gap", TRUE),
                             !.done = FALSE]
              ELSE [t EXCEPT !.done = TRUE]
    IN  [t1 EXCEPT !.readyState = "CLOSING",
                   !.lastMsg = Msg("done", lastSeq, "undefined")]

\* socket.onmessage, payload.type === "done"
onDone(t, lastSeq) ==
    LET streamLastSeq == IF lastSeq # Absent THEN lastSeq ELSE t.highestSeqSeen
        t1 == IF streamLastSeq > t.highestSeqSeen
              THEN [t EXCEPT !.finalError = buildError("tts_ws_sequence_gap", TRUE),
                             !.done = FALSE]
              ELSE [t EXCEPT !.done = TRUE]
    IN  [t1 EXCEPT !.readyState = "CLOSING",
                   !.lastMsg = Msg("done", lastSeq, "undefined")]

\* socket.onmessage, payload.type === "error"; retryable is the payload's field
onErrorMsg(t, retryable) ==
    [t EXCEPT !.finalError = buildError("tts_ws_error", NotStrictlyFalse(retryable)),
              !.done = FALSE,
              !.readyState = "CLOSING",
              !.lastMsg = Msg("error", Absent, retryable)]

\* socket.onerror
onerror(t) ==
    IF t.finalError = NullError
    THEN [t EXCEPT !.finalError = buildError("tts_ws_transport_error", TRUE)]
    ELSE t

\* socket.onclose
onclose(c, t) ==
    IF c.isStopped
    THEN finalize(c, t, "reject", buildError("stream_stopped", FALSE))
    ELSE IF t.done
    THEN finalize(c, t, "resolve", NullError)
    ELSE finalize(c, t, "reject",
                  IF t.finalError # NullError THEN t.finalError
                  ELSE buildError("tts_ws_closed_before_done", TRUE))

\* collectTtsViaWebSocket(...) up to its first suspension
collectTtsViaWebSocket(c, rid) ==
    connectOnce(c, [TtsIdle EXCEPT !.requestId = rid])

(* Actions *)

\* The agent loop ends: with a reply, with an empty reply, or with an error.
AgentLoopEnds(reply) ==
    /\ ctl.pc = "agent"
    /\ LET c == [ctl EXCEPT !.activeSocket = "null"] IN
       IF reply = "error"
       THEN ctl' = [c EXCEPT !.pc = "rejected"] /\ UNCHANGED tts
       ELSE IF c.isStopped \/ reply = ""
       THEN ctl' = [HideCursorUnlessStopped(c) EXCEPT !.pc = "resolved"] /\ UNCHANGED tts
       ELSE \E rid \in RequestIds :
              LET r == collectTtsViaWebSocket([c EXCEPT !.pc = "tts_ws"], rid)
              IN  ctl' = r.ctl /\ tts' = r.tts
    /\ UNCHANGED <<stt, pure, agent, play>>

\* controller.stop()
Stop ==
    /\ ctl' = [ctl EXCEPT !.isStopped = TRUE]
    /\ tts' = IF ctl.activeSocket = "tts" /\ tts.readyState \in {"CONNECTING", "OPEN"}
              THEN [tts EXCEPT !.readyState = "CLOSING"]
              ELSE tts
    /\ UNCHANGED <<stt, pure, agent, play>>

TtsOpen ==
    /\ tts.pc = "connecting" /\ tts.readyState = "CONNECTING"
    /\ tts' = onopen(tts)
    /\ UNCHANGED <<ctl, stt, pure, agent, play>>

TtsAudio(msgSeq) ==
    /\ tts.pc = "connecting" /\ tts.readyState = "OPEN"
    /\ tts.msgCount < MaxTtsMsgs
    /\ tts' = onAudio(tts, msgSeq)
    /\ UNCHANGED <<ctl, stt, pure, agent, play>>

TtsDone(lastSeq) ==
    /\ tts.pc = "connecting" /\ tts.readyState = "OPEN"
    /\ tts' = onDone(tts, lastSeq)
    /\ UNCHANGED <<ctl, stt, pure, agent, play>>

TtsErrorMsg(retryable) ==
    /\ tts.pc = "connecting" /\ tts.readyState = "OPEN"
    /\ tts' = onErrorMsg(tts, retryable)
    /\ UNCHANGED <<ctl, stt, pure, agent, play>>

\* The connection fails: the error event, then the close event.
TtsTransportFail ==
    /\ tts.pc = "connecting" /\ tts.readyState \in {"CONNECTING", "OPEN", "CLOSING"}
    /\ LET r == onclose(ctl, onerror([tts EXCEPT !.readyState = "CLOSED"]))
       IN  ctl' = r.ctl /\ tts' = r.tts
    /\ UNCHANGED <<stt, pure, agent, play>>

\* The close event alone: the closing handshake ended, or the server closed.
TtsClose ==
    /\ tts.pc = "connecting" /\ tts.readyState \in {"OPEN", "CLOSING"}
    /\ LET r == onclose(ctl, [tts EXCEPT !.readyState = "CLOSED"])
       IN  ctl' = r.ctl /\ tts' = r.tts
    /\ UNCHANGED <<stt, pure, agent, play>>

\* The sleep(delay) timer fires: the loop calls connectOnce again.
TtsSleepDone ==
    /\ tts.pc = "sleeping"
    /\ LET r == connectOnce(ctl, tts) IN ctl' = r.ctl /\ tts' = r.tts
    /\ UNCHANGED <<stt, pure, agent, play>>

\* collectTtsViaSse returns n chunks (the stream ended or its reader was cancelled).
SseReturns(n) ==
    /\ ctl.pc = "tts_sse"
    /\ ctl' = AfterCollect(ctl, n)
    /\ UNCHANGED <<tts, stt, pure, agent, play>>

\* collectTtsViaSse throws (HTTP error, unreadable body, network failure).
SseThrows ==
    /\ ctl.pc = "tts_sse"
    /\ ctl' = [ctl EXCEPT !.pc = "rejected"]
    /\ UNCHANGED <<tts, stt, pure, agent, play>>

\* playBufferedAudio settles.
PlaybackSettles(ok) ==
    /\ ctl.pc = "playing"
    /\ ctl' = IF ok
              THEN [HideCursorUnlessStopped(ctl) EXCEPT !.pc = "resolved"]
              ELSE [ctl EXCEPT !.pc = "rejected"]
    /\ UNCHANGED <<tts, stt, pure, agent, play>>

SttIdle == [pc |-> "idle"]
PureIdle == [pc |-> "idle"]
AgentIdle == [page |-> "none"]
PlayIdle == [pc |-> "idle"]

InitTts ==
    /\ ctl \in {CtlInit(v) : v \in Variants}
    /\ tts = TtsIdle
    /\ stt = SttIdle
    /\ pure = PureIdle
    /\ agent = AgentIdle
    /\ play = PlayIdle

NextTts ==
    \/ \E reply \in {"reply", "", "error"} : AgentLoopEnds(reply)
    \/ Stop
    \/ TtsOpen
    \/ \E s \in {Absent} \cup (0..MaxSeq) : TtsAudio(s)
    \/ \E s \in {Absent} \cup (0..MaxSeq) : TtsDone(s)
    \/ \E r \in {"true", "false", "undefined"} : TtsErrorMsg(r)
    \/ TtsTransportFail
    \/ TtsClose
    \/ TtsSleepDone
    \/ \E n \in {0, 1} : SseReturns(n)
    \/ SseThrows
    \/ \E ok \in BOOLEAN : PlaybackSettles(ok)

SpecTts == InitTts /\ [][NextTts]_vars

----------------------------------------------------------------------------
(* STT WebSocket session: startSttWebSocketStream *)

\* Transcript texts, as sequences of characters: empty, blank, plain,
\* padded on both sides, and with an inner space.
Texts == { <<>>, <<" ">>, <<"m">>, <<" ", "m", " ">>, <<"m", " ", "m">> }

RECURSIVE TrimStart(_)
TrimStart(s) == IF s # <<>> /\ Head(s) = " " THEN TrimStart(Tail(s)) ELSE s

RECURSIVE TrimEnd(_)
TrimEnd(s) ==
    IF s # <<>> /\ s[Len(s)] = " " THEN TrimEnd(SubSeq(s, 1, Len(s) - 1)) ELSE s

\* String.prototype.trim
Trim(s) == TrimEnd(TrimStart(s))

SessionIds == {"s1", "s2"}

\* A string field that is missing from a payload (typeof x !== "string").
NoField == "<absent>"

NoResult == [text |-> <<>>, session_id |-> ""]

\* A frame sent on the STT socket. id names the chunk the frame's audio encodes
\* (for a stop frame: the stop() call that queued it), 0 for the start frame;
\* early says that the call was made before any start_ack was delivered.
SttFrame(type, seq, id, early) ==
    [type |-> type, seq |-> seq, id |-> id, early |-> early]

\* One link of the sendQueue promise chain.
\* pc: queued | awaitStart (in `await startPromise`) | encoding (in blobToBase64)
Task(kind, id, early) == [kind |-> kind, id |-> id, pc |-> "queued", early |-> early]

\* A pushChunk call: the chunk's size, and the promise it returned
\* ("resolved": Promise.resolve(); "sendQueue": the chain with the new link).
Push(size, promise) == [size |-> size, promise |-> promise]

NoPush == Push(Absent, "none")

SttInit(configSessionId) ==
    [ pc              |-> "active",
      configSessionId |-> configSessionId,
      readyState      |-> "CONNECTING",
      seq             |-> 0,
      finalText       |-> <<>>,
      finalSessionId  |-> configSessionId,
      stopped         |-> FALSE,
      settled         |-> FALSE,
      startPromise    |-> "pending",   \* pending | resolved | rejected
      donePromise     |-> "pending",   \* pending | resolved | rejected
      doneValue       |-> NoResult,
      doneError       |-> NullError,
      sendQueue       |-> <<>>,        \* the links of the chain not yet run to the end
      chainRejected   |-> FALSE,       \* the sendQueue promise is rejected
      sent            |-> <<>>,        \* frames sent on the socket, in order
      nextId          |-> 0,           \* links chained so far
      dropped         |-> {},          \* links that ended without a send
      cancelled       |-> FALSE,       \* cancel() was called
      lastPush        |-> NoPush,      \* the last pushChunk call: chunk size, promise returned
      onstop          |-> "idle",      \* recorder.onstop: idle | awaiting (stop()) | returned
      turnsWs         |-> 0,           \* runAgentForUserText calls of recorder.onstop
      turnsHttp       |-> 0,           \* handleAudioBlob calls of recorder.onstop
      startAckSeen    |-> FALSE,       \* a start_ack was delivered
      serverError     |-> FALSE,       \* an error message was delivered
      rcvText         |-> <<>>,        \* text of the last final delivered
      rcvSessionId    |-> configSessionId ]  \* last session id delivered (or configured)

rejectAll(s, error) ==
    IF s.settled THEN s
    ELSE [s EXCEPT !.settled = TRUE,
                   !.startPromise = IF @ = "pending" THEN "rejected" ELSE @,
                   !.donePromise = "rejected",
                   !.doneError = error]

\* Mutant: a transcript that is blank after trimming completes the session.
CompletionReady_untrimmed(s) == s.finalText # <<>> /\ s.finalSessionId # ""

\* The test `!(!finalText.trim() || !finalSessionId)` of resolveDoneIfPossible.
CompletionReady(s) == Trim(s.finalText) # <<>> /\ s.finalSessionId # ""

resolveDoneIfPossible(s) ==
    IF s.settled THEN s
    ELSE IF ~CompletionReady(s) THEN s
    ELSE [s EXCEPT !.settled = TRUE,
                   !.startPromise = IF @ = "pending" THEN "resolved" ELSE @,
                   !.donePromise = "resolved",
                   !.doneValue = [text |-> Trim(s.finalText),
                                  session_id |-> s.finalSessionId]]

\* socket.close()
SttSocketClose(s) ==
    IF s.readyState \in {"CONNECTING", "OPEN"}
    THEN [s EXCEPT !.readyState = "CLOSING"]
    ELSE s

sttOnopen(s) ==
    [s EXCEPT !.readyState = "OPEN", !.sent = Append(@, SttFrame("start", 0, 0, TRUE))]

\* onmessage, type start_ack with a string session_id
sttOnStartAck(s, sessionId) ==
    [s EXCEPT !.finalSessionId = sessionId,
              !.startPromise = IF @ = "pending" THEN "resolved" ELSE @]

\* onmessage, type final with a string text; sessionId may be NoField
sttOnFinal(s, text, sessionId) ==
    [s EXCEPT !.finalText = text,
              !.finalSessionId = IF sessionId # NoField THEN sessionId ELSE @]

\* onmessage, type done
sttOnDone(s) == SttSocketClose(resolveDoneIfPossible(s))

\* onmessage, type error
sttOnErrorMsg(s, retryable) ==
    SttSocketClose(rejectAll(s, buildError("stt_ws_error", NotStrictlyFalse(retryable))))

sttOnerror(s) == rejectAll(s, buildError("stt_ws_transport_error", TRUE))

sttOnclose(s) ==
    IF s.settled THEN s
    ELSE IF s.finalText # <<>> /\ s.finalSessionId # ""
    THEN resolveDoneIfPossible(s)
    ELSE rejectAll(s, buildError("stt_ws_closed_before_done", TRUE))

\* The head link ends without sending.
SkipHead(s) ==
    LET task == Head(s.sendQueue) IN
    [s EXCEPT !.sendQueue = Tail(@), !.dropped = @ \cup {task.id}]

\* The sendQueue promise is rejected: no link chained on it runs.
RejectChain(s) ==
    [s EXCEPT !.sendQueue = <<>>,
              !.chainRejected = TRUE,
              !.dropped = @ \cup {s.sendQueue[i].id : i \in 1..Len(s.sendQueue)}]

\* Mutant: a chunk link does not wait for startPromise.
StartGate_chunksSkip(s, task) ==
    IF task.kind = "chunk" THEN "resolved" ELSE s.startPromise

\* What `await startPromise` finds in the link of `task`.
StartGate(s, task) == s.startPromise

\* The stop link after `await startPromise`.
RunStop(s, task) ==
    IF s.stopped THEN SkipHead(s)
    ELSE IF s.readyState = "OPEN"
    THEN [s EXCEPT !.sendQueue = Tail(@),
                   !.sent = Append(@, SttFrame("stop", 0, task.id, task.early))]
    ELSE SkipHead(s)

\* The microtasks of the chain: the head link runs until it suspends in a real
\* wait (a pending startPromise, blobToBase64) or ends, and then the next one.
RECURSIVE RunQueue(_)
RunQueue(s) ==
    IF s.sendQueue = <<>> THEN s
    ELSE IF s.chainRejected THEN RejectChain(s)
    ELSE LET task == Head(s.sendQueue) IN
         IF task.pc = "encoding" THEN s
         ELSE IF task.kind = "chunk" /\ task.pc = "queued" /\ s.stopped
         THEN RunQueue(SkipHead(s))
         ELSE IF StartGate(s, task) = "pending"
         THEN [s EXCEPT !.sendQueue[1].pc = "awaitStart"]
         ELSE IF StartGate(s, task) = "rejected"
         THEN RejectChain(s)
         ELSE IF task.kind = "stop"
         THEN RunQueue(RunStop(s, task))
         ELSE IF s.stopped
         THEN RunQueue(SkipHead(s))
         ELSE [s EXCEPT !.sendQueue[1].pc = "encoding"]

\* Mutant: the chunk link sends without advancing seq.
AfterEncode_sameSeq(s) ==
    LET task == Head(s.sendQueue) IN
    IF s.stopped \/ s.readyState # "OPEN"
    THEN SkipHead(s)
    ELSE [s EXCEPT !.sendQueue = Tail(@),
                   !.sent = Append(@, SttFrame("chunk", s.seq, task.id, task.early))]

\* The chunk link after `await blobToBase64(chunk)`.
AfterEncode(s) ==
    LET task == Head(s.sendQueue)
        s1   == [s EXCEPT !.seq = @ + 1]
    IN  IF s1.stopped \/ s1.readyState # "OPEN"
        THEN SkipHead(s1)
        ELSE [s1 EXCEPT !.sendQueue = Tail(@),
                        !.sent = Append(@, SttFrame("chunk", s1.seq, task.id, task.early))]

Enqueue(s, kind) ==
    [s EXCEPT !.nextId = @ + 1,
              !.sendQueue = Append(@, Task(kind, s.nextId + 1, ~s.startAckSeen))]

\* Mutant: a zero-byte chunk is chained like any other.
pushChunk_anySize(s, size) ==
    IF s.stopped THEN [s EXCEPT !.lastPush = Push(size, "resolved")]
    ELSE [RunQueue(Enqueue(s, "chunk")) EXCEPT !.lastPush = Push(size, "sendQueue")]

pushChunk(s, size) ==
    IF s.stopped \/ size = 0 THEN [s EXCEPT !.lastPush = Push(size, "resolved")]
    ELSE [RunQueue(Enqueue(s, "chunk")) EXCEPT !.lastPush = Push(size, "sendQueue")]

\* Mutant: stop() sends its frame at once instead of chaining it.
stop_unchained(s) ==
    IF s.readyState = "OPEN" /\ s.startPromise = "resolved" /\ ~s.stopped
    THEN [s EXCEPT !.nextId = @ + 1,
                   !.sent = Append(@, SttFrame("stop", 0, s.nextId + 1, ~s.startAckSeen))]
    ELSE [s EXCEPT !.nextId = @ + 1]

stop(s) == RunQueue(Enqueue(s, "stop"))

\* Mutant: cancel() leaves the session as it is.
cancel_noop(s) == s

cancel(s) == SttSocketClose([s EXCEPT !.stopped = TRUE])

\* recorder.onstop of a recording that is neither discarded nor empty, from
\* the settlement of `await currentSttWs.stop()` on: the transcript's turn, or
\* the HTTP POST fallback.  (runAgentForUserText catches what its stream
\* throws, so the try block is left by its `return`.)
AfterSttStop(s) ==
    IF s.donePromise = "resolved" /\ Trim(s.doneValue.text) # <<>>
    THEN [s EXCEPT !.onstop = "returned", !.turnsWs = @ + 1]
    ELSE [s EXCEPT !.onstop = "returned", !.turnsHttp = @ + 1]

\* The microtask that resumes recorder.onstop once the promise it awaits is settled.
OnstopResumes(s) ==
    IF s.onstop = "awaiting" /\ s.donePromise # "pending" THEN AfterSttStop(s) ELSE s

\* recorder.onstop up to `await currentSttWs.stop()`.
RecorderOnstop(s) ==
    OnstopResumes([stop(s) EXCEPT !.onstop = IF @ = "idle" THEN "awaiting" ELSE @])

(* Actions *)

SttOpen ==
    /\ stt.readyState = "CONNECTING"
    /\ stt' = sttOnopen(stt)
    /\ UNCHANGED <<ctl, tts, pure, agent, play>>

SttStartAck(sessionId) ==
    /\ stt.readyState = "OPEN"
    /\ stt' = RunQueue([sttOnStartAck(stt, sessionId) EXCEPT
                            !.startAckSeen = TRUE,
                            !.rcvSessionId = sessionId])
    /\ UNCHANGED <<ctl, tts, pure, agent, play>>

\* onmessage, type partial: only events.onPartial is invoked.
SttPartial ==
    /\ stt.readyState = "OPEN"
    /\ UNCHANGED vars

SttFinal(text, sessionId) ==
    /\ stt.readyState = "OPEN"
    /\ stt' = [sttOnFinal(stt, text, sessionId) EXCEPT
                   !.rcvText = text,
                   !.rcvSessionId = IF sessionId # NoField THEN sessionId ELSE @]
    /\ UNCHANGED <<ctl, tts, pure, agent, play>>

SttDoneMsg ==
    /\ stt.readyState = "OPEN"
    /\ stt' = OnstopResumes(RunQueue(sttOnDone(stt)))
    /\ UNCHANGED <<ctl, tts, pure, agent, play>>

SttErrorMsg(retryable) ==
    /\ stt.readyState = "OPEN"
    /\ stt' = OnstopResumes(
                  RunQueue([sttOnErrorMsg(stt, retryable) EXCEPT !.serverError = TRUE]))
    /\ UNCHANGED <<ctl, tts, pure, agent, play>>

\* The connection fails: the error event, then the close event.
SttTransportFail ==
    /\ stt.readyState \in {"CONNECTING", "OPEN", "CLOSING"}
    /\ stt' = OnstopResumes(RunQueue(sttOnclose(RunQueue(sttOnerror(
                  [stt EXCEPT !.readyState = "CLOSED"])))))
    /\ UNCHANGED <<ctl, tts, pure, agent, play>>

\* The close event alone.
SttClose ==
    /\ stt.readyState \in {"OPEN", "CLOSING"}
    /\ stt' = OnstopResumes(RunQueue(sttOnclose([stt EXCEPT !.readyState = "CLOSED"])))
    /\ UNCHANGED <<ctl, tts, pure, agent, play>>

PushChunk(size) ==
    /\ stt.pc = "active"
    /\ stt.nextId < MaxSttCalls
    /\ stt' = pushChunk(stt, size)
    /\ UNCHANGED <<ctl, tts, pure, agent, play>>

StopCall ==
    /\ stt.pc = "active"
    /\ stt.nextId < MaxSttCalls
    /\ stt' = RecorderOnstop(stt)
    /\ UNCHANGED <<ctl, tts, pure, agent, play>>

Cancel ==
    /\ stt.pc = "active"
    /\ stt' = [cancel(stt) EXCEPT !.cancelled = TRUE]
    /\ UNCHANGED <<ctl, tts, pure, agent, play>>

\* blobToBase64 of the head link completes.
EncodeDone ==
    /\ stt.pc = "active"
    /\ stt.sendQueue # <<>>
    /\ Head(stt.sendQueue).pc = "encoding"
    /\ stt' = RunQueue(AfterEncode(stt))
    /\ UNCHANGED <<ctl, tts, pure, agent, play>>

InitStt ==
    /\ stt \in {SttInit(c) : c \in {"", "s1"}}
    /\ ctl = CtlInit("voice")
    /\ tts = TtsIdle
    /\ pure = PureIdle
    /\ agent = AgentIdle
    /\ play = PlayIdle

NextStt ==
    \/ SttOpen
    \/ \E sid \in SessionIds \cup {""} : SttStartAck(sid)
    \/ SttPartial
    \/ \E text \in Texts, sid \in SessionIds \cup {"", NoField} : SttFinal(text, sid)
    \/ SttDoneMsg
    \/ \E r \in {"true", "false", "undefined"} : SttErrorMsg(r)
    \/ SttTransportFail
    \/ SttClose
    \/ \E size \in {0, 1} : PushChunk(size)
    \/ StopCall
    \/ Cancel
    \/ EncodeDone

SpecStt == InitStt /\ [][NextStt]_vars

----------------------------------------------------------------------------
(* Pure helpers, applied to enumerated inputs *)

ErrorMessages == {"ws failed", "bad payload"}

ErrorInputs ==
    {ErrorValue("object", TRUE, v, m) : v \in JsVals, m \in ErrorMessages}
    \cup {ErrorValue("object", FALSE, "undefined", m) : m \in ErrorMessages}
    \cup {ErrorValue("string", FALSE, "undefined", m) : m \in ErrorMessages}
    \cup {NullError}

SeqInputs == (0..5) \X (0..5)

\* Base URLs, as sequences of characters; a scheme prefix is one character.
BaseUrls ==
    { <<"https://", "h">>,
      <<"http://", "h", "/">>,
      <<"HTTPS://", "h", "/", "p", "/", "?", "q">>,
      <<" ", "h", "/", "p", " ">>,
      <<"h", "#", "f">>,
      <<>>,
      <<" ">>,
      <<"http://">>,
      <<"h", " ", "h">>,
      <<"/", "p">> }

\* The path arguments of the three callers.
WsPaths == { <<"/", "chat">> }

HttpSchemes == {"http://", "HTTP://", "https://", "HTTPS://"}

\* replace(/\/+$/, "")
RECURSIVE StripTrailingSlashes(_)
StripTrailingSlashes(s) ==
    IF s # <<>> /\ s[Len(s)] = "/"
    THEN StripTrailingSlashes(SubSeq(s, 1, Len(s) - 1))
    ELSE s

normalizeBaseUrl(baseUrl) ==
    LET trimmed == StripTrailingSlashes(Trim(baseUrl))
    IN  IF trimmed # <<>> /\ trimmed[1] \in HttpSchemes
        THEN trimmed
        ELSE <<"https://">> \o trimmed

\* The characters of s before the first one that is in `stops`.
RECURSIVE UpTo(_, _)
UpTo(s, stops) ==
    IF s = <<>> \/ Head(s) \in stops THEN <<>>
    ELSE <<Head(s)>> \o UpTo(Tail(s), stops)

\* new URL(href) for an href with an http(s) scheme: a TypeError when the
\* host is empty or holds a space, else the parsed URL.
ParseUrl(href) ==
    LET rest == Tail(href)
        host == UpTo(rest, {"/", "?", "#"})
        tail == SubSeq(rest, Len(host) + 1, Len(rest))
        path == UpTo(tail, {"?", "#"})
    IN  IF host = <<>> \/ \E k \in 1..Len(host) : host[k] = " "
        THEN [threw |-> TRUE, protocol |-> "", host |-> <<>>, pathname |-> <<>>,
              search |-> <<>>]
        ELSE [threw    |-> FALSE,
              protocol |-> IF href[1] \in {"https://", "HTTPS://"} THEN "https:" ELSE "http:",
              host     |-> host,
              pathname |-> IF path = <<>> THEN <<"/">> ELSE path,
              search   |-> SubSeq(tail, Len(path) + 1, Len(tail))]

\* toWebSocketUrl: the URL it returns, or the TypeError of new URL().
toWebSocketUrl(baseUrl, path) ==
    LET url == ParseUrl(normalizeBaseUrl(baseUrl))
        p   == url.pathname
    IN  IF url.threw THEN url
        ELSE [url EXCEPT
                !.protocol = IF @ = "https:" THEN "wss:" ELSE "ws:",
                !.pathname = (IF p # <<>> /\ p[Len(p)] = "/"
                              THEN SubSeq(p, 1, Len(p) - 1) ELSE p) \o path,
                !.search = <<>>]

\* SSE payloads: the JS values of their `audio` and `type` fields.
SsePayloads ==
    [audio : {"undefined", "null", "1", "''", "'YWJj'"},
     type  : {"undefined", "null", "''", "'audio'", "'audio_done'"}]

\* typeof v === "string"
IsJsString(v) == v \in {"''", "'YWJj'", "'audio'", "'audio_done'"}

\* Mutant: any payload with an audio string counts.
isAudioSsePayload_anyType(payload) == IsJsString(payload.audio)

isAudioSsePayload(payload) ==
    /\ IsJsString(payload.audio)
    /\ (payload.type = "undefined" \/ payload.type = "'audio'")

shouldAutoListenAfterAudio(accessibilityMode, expectsReply, isRecording, isBusy) ==
    (accessibilityMode \/ expectsReply) /\ ~isRecording /\ ~isBusy

PureCall(fn, arg) == [pc |-> "called", fn |-> fn, arg |-> arg, out |-> FALSE]

InitPure ==
    /\ pure \in {PureCall("shouldFallbackToSse", e) : e \in ErrorInputs}
           \cup {PureCall("shouldAcceptAudioSeq", p) : p \in SeqInputs}
           \cup {PureCall("toWebSocketUrl", p) : p \in BaseUrls \X WsPaths}
           \cup {PureCall("isAudioSsePayload", p) : p \in SsePayloads}
           \cup {PureCall("shouldAutoListenAfterAudio", p) :
                     p \in BOOLEAN \X BOOLEAN \X BOOLEAN \X BOOLEAN}
    /\ ctl = CtlInit("text")
    /\ tts = TtsIdle
    /\ stt = SttIdle
    /\ agent = AgentIdle
    /\ play = PlayIdle

Apply_shouldFallbackToSse ==
    /\ pure.pc = "called" /\ pure.fn = "shouldFallbackToSse"
    /\ pure' = [pure EXCEPT !.pc = "returned", !.out = shouldFallbackToSse(pure.arg)]
    /\ UNCHANGED <<ctl, tts, stt, agent, play>>

Apply_shouldAcceptAudioSeq ==
    /\ pure.pc = "called" /\ pure.fn = "shouldAcceptAudioSeq"
    /\ pure' = [pure EXCEPT !.pc = "returned",
                            !.out = shouldAcceptAudioSeq(pure.arg[1], pure.arg[2])]
    /\ UNCHANGED <<ctl, tts, stt, agent, play>>

Apply_toWebSocketUrl ==
    /\ pure.pc = "called" /\ pure.fn = "toWebSocketUrl"
    /\ pure' = [pure EXCEPT !.pc = "returned",
                            !.out = toWebSocketUrl(pure.arg[1], pure.arg[2])]
    /\ UNCHANGED <<ctl, tts, stt, agent, play>>

Apply_isAudioSsePayload ==
    /\ pure.pc = "called" /\ pure.fn = "isAudioSsePayload"
    /\ pure' = [pure EXCEPT !.pc = "returned", !.out = isAudioSsePayload(pure.arg)]
    /\ UNCHANGED <<ctl, tts, stt, agent, play>>

Apply_shouldAutoListenAfterAudio ==
    /\ pure.pc = "called" /\ pure.fn = "shouldAutoListenAfterAudio"
    /\ pure' = [pure EXCEPT !.pc = "returned",
                            !.out = shouldAutoListenAfterAudio(pure.arg[1], pure.arg[2],
                                                               pure.arg[3], pure.arg[4])]
    /\ UNCHANGED <<ctl, tts, stt, agent, play>>

NextPure ==
    \/ Apply_shouldFallbackToSse
    \/ Apply_shouldAcceptAudioSeq
    \/ Apply_toWebSocketUrl
    \/ Apply_isAudioSsePayload
    \/ Apply_shouldAutoListenAfterAudio

SpecPure == InitPure /\ [][NextPure]_vars

----------------------------------------------------------------------------
(* Claims about the TTS WebSocket collection (SpecTts) *)

StrictlyIncreasing(s) == \A i \in 1..(Len(s) - 1) : s[i] < s[i + 1]

IsPrefix(s, t) == Len(s) <= Len(t) /\ SubSeq(t, 1, Len(s)) = s

HighestBuffered(s) == IF s = <<>> THEN 0 ELSE s[Len(s)]

AudioSeqs == {Absent} \cup (0..MaxSeq)

\* The step in which the current connectOnce promise settles.
AttemptSettles ==
    /\ tts.pc \in {"connecting", "sleeping"}
    /\ tts'.pc \in {"sleeping", "returned", "thrown"}
    /\ tts'.pc # tts.pc

\* The last message on the socket was a done reporting more than was received.
GapDone(t) ==
    /\ t.lastMsg.type = "done"
    /\ t.lastMsg.seq # Absent
    /\ t.lastMsg.seq > t.highestSeqSeen

\* C1: within one collectTtsViaWebSocket call an audio chunk is appended to the
\* buffer if and only if its seq is strictly greater than highestSeqSeen at
\* arrival; the buffer never shrinks across reconnects, and the seqs of the
\* buffered chunks are strictly increasing (no seq is buffered twice).
C1_DedupBySeq ==
    /\ [](StrictlyIncreasing(tts.chunks) /\ Len(tts.chunks) <= tts.msgCount)
    /\ [][ /\ \A s \in AudioSeqs :
                TtsAudio(s) =>
                    IF s # Absent /\ s > tts.highestSeqSeen
                    THEN tts'.chunks = Append(tts.chunks, s)
                    ELSE tts'.chunks = tts.chunks
           /\ tts.pc # "idle" => IsPrefix(tts.chunks, tts'.chunks) ]_vars

\* C1 witness: seq 1, 2, 2 then done{last_seq: 2}: two chunks buffered, success.
C1_Witness ==
    /\ tts.pc = "returned"
    /\ tts.chunks = <<1, 2>>
    /\ tts.msgCount = 3
    /\ tts.sent = <<StartFrame("r1", 0), AckFrame("r1", 1),
                    AckFrame("r1", 2), AckFrame("r1", 2)>>

\* C2 as stated: an attempt whose done reported a last_seq greater than
\* highestSeqSeen always settles rejected with the retryable sequence-gap error.
C2_GapAlwaysRetryable ==
    [][ (AttemptSettles /\ GapDone(tts)) =>
            tts'.outcome = [mode |-> "reject",
                            error |-> buildError("tts_ws_sequence_gap", TRUE)] ]_vars

\* C2 amended: such an attempt is never resolved; it is rejected with the
\* retryable sequence-gap error and (ladder not exhausted) goes on to reconnect,
\* unless the controller was stopped before the socket's close event, in which
\* case it is rejected with the non-retryable stream_stopped error.
C2_GapRejected ==
    [][ (AttemptSettles /\ GapDone(tts)) =>
            IF ctl.isStopped
            THEN /\ tts'.outcome = [mode |-> "reject",
                                    error |-> buildError("stream_stopped", FALSE)]
                 /\ tts'.pc = "thrown"
            ELSE /\ tts'.outcome = [mode |-> "reject",
                                    error |-> buildError("tts_ws_sequence_gap", TRUE)]
                 /\ tts.attempt < Len(TTS_WS_RETRY_DELAYS_MS) =>
                        tts'.pc = "sleeping" /\ tts'.highestSeqSeen = tts.highestSeqSeen
       ]_vars

\* C2 witness: done{last_seq: 2} after only seq 1, rejected as a gap, reconnecting.
C2_Witness ==
    /\ tts.pc = "sleeping"
    /\ tts.outcome = [mode |-> "reject", error |-> buildError("tts_ws_sequence_gap", TRUE)]
    /\ tts.chunks = <<1>>
    /\ ~ctl.isStopped

\* C3: the k-th reconnect waits the k-th ladder delay, one call opens at most
\* 4 sockets, every start frame carries the call's request_id and the highest
\* seq buffered so far, and buffered chunks survive the reconnect.
C3_RetryLadder ==
    /\ [] /\ tts.delaysWaited = SubSeq(TTS_WS_RETRY_DELAYS_MS, 1, tts.attempt)
          /\ tts.attempt <= 3
          /\ tts.socketsOpened <= tts.attempt + 1
          /\ tts.socketsOpened <= 4
          /\ \A i \in 1..Len(tts.sent) :
                tts.sent[i].type = "start" => tts.sent[i].request_id = tts.requestId
    /\ [][ /\ TtsOpen =>
                /\ tts'.sent = Append(tts.sent,
                      [type |-> "start", request_id |-> tts.requestId,
                       last_seq |-> HighestBuffered(tts.chunks)])
                /\ HighestBuffered(tts.chunks) = tts.highestSeqSeen
           /\ (AttemptSettles /\ tts'.outcome.mode = "reject"
                 /\ tts'.outcome.error.retryable = "true"
                 /\ tts.attempt < 3) =>
                /\ tts'.pc = "sleeping"
                /\ tts'.delaysWaited = Append(tts.delaysWaited,
                                              TTS_WS_RETRY_DELAYS_MS[tts.attempt + 1])
                /\ tts'.chunks = tts.chunks
           /\ tts'.socketsOpened > tts.socketsOpened =>
                \/ tts.pc = "idle"
                \/ tts.pc = "sleeping" /\ Len(tts.delaysWaited) = tts.socketsOpened
         ]_vars

\* C3 witness: the fourth attempt resumes from seq 1 after the whole ladder.
C3_Witness ==
    /\ tts.socketsOpened = 4
    /\ tts.delaysWaited = <<250, 750, 1500>>
    /\ tts.chunks = <<1>>
    /\ tts.startsSent = 4
    /\ tts.sent[Len(tts.sent)] = StartFrame("r1", 1)

\* C4: an attempt rejected with a non-retryable error (a server error with
\* retryable:false, or stream_stopped), or rejected on the attempt after the
\* last ladder entry, is rethrown at once: no socket is opened and no delay is
\* slept after it.
C4_NonRetryableRethrown ==
    [][ /\ (AttemptSettles /\ tts'.outcome.mode = "reject"
              /\ (tts'.outcome.error.retryable = "false"
                    \/ tts.attempt = Len(TTS_WS_RETRY_DELAYS_MS))) =>
                /\ tts'.pc = "thrown"
                /\ tts'.thrownError = tts'.outcome.error
                /\ tts'.delaysWaited = tts.delaysWaited
                /\ tts'.socketsOpened = tts.socketsOpened
        /\ (AttemptSettles /\ tts.lastMsg.type = "error"
              /\ tts.lastMsg.retryable = "false") =>
                /\ tts'.outcome.mode = "reject"
                /\ tts'.outcome.error.retryable = "false"
        /\ tts.pc = "thrown" => tts' = tts ]_vars

\* C4 witness: a server error with retryable:false on the second attempt.
C4_Witness ==
    /\ tts.pc = "thrown"
    /\ tts.thrownError = buildError("tts_ws_error", FALSE)
    /\ tts.delaysWaited = <<250>>
    /\ tts.socketsOpened = 2

\* C5: when the WebSocket collection fails and the stream is not stopped,
\* exactly one SSE collection is started; none when the collection succeeded.
C5_OneSseFallback ==
    /\ [] /\ ctl.sseCalls <= 1
          /\ tts.pc = "returned" => ctl.sseCalls = 0
          /\ ctl.sseCalls = 1 => tts.pc = "thrown"
          /\ (tts.pc = "thrown" /\ ~ctl.isStopped) => ctl.sseCalls = 1
    /\ [][ (tts.pc # "thrown" /\ tts'.pc = "thrown" /\ ~ctl.isStopped) =>
              ctl'.sseCalls = 1 /\ ctl'.pc = "tts_sse" ]_vars

\* C5 witness: a non-retryable failure of a running stream, SSE collection begun.
C5_Witness ==
    /\ tts.pc = "thrown"
    /\ tts.thrownError.retryable = "false"
    /\ ~ctl.isStopped
    /\ ctl.pc = "tts_sse"
    /\ ctl.sseCalls = 1

----------------------------------------------------------------------------
(* Claims about the STT WebSocket session (SpecStt) *)

SentOfType(type) == {i \in 1..Len(stt.sent) : stt.sent[i].type = type}

QueuedIds == {stt.sendQueue[k].id : k \in 1..Len(stt.sendQueue)}

SentIds == {stt.sent[i].id : i \in SentOfType("chunk") \cup SentOfType("stop")}

\* C7: a stop frame is sent only after every link chained before its stop()
\* call has ended (sent or skipped), and no chunk pushed before that stop()
\* call is sent after the stop frame.
C7_StopAfterQueuedChunks ==
    \A i \in SentOfType("stop") :
        /\ \A j \in SentOfType("chunk") : j > i => stt.sent[j].id > stt.sent[i].id
        /\ \A id \in QueuedIds : id > stt.sent[i].id
        /\ \A id \in 1..(stt.sent[i].id - 1) : id \in SentIds \cup stt.dropped

\* C7 witness: two chunks and a stop(), all called before start_ack, leave as
\* chunk, chunk, stop.
C7_Witness ==
    /\ Len(stt.sent) = 4
    /\ stt.sent[2] = SttFrame("chunk", 1, 1, TRUE)
    /\ stt.sent[3] = SttFrame("chunk", 2, 2, TRUE)
    /\ stt.sent[4] = SttFrame("stop", 0, 3, TRUE)

\* C8: no chunk frame is sent before a start_ack was delivered; a chunk link is
\* held in the queue until then, and it ends without a send only if the session
\* was cancelled or the socket is no longer open.
C8_ChunksWaitForStartAck ==
    /\ SentOfType("chunk") # {} => stt.startAckSeen
    /\ stt.dropped # {} => (stt.stopped \/ stt.readyState \in {"CLOSING", "CLOSED"})
    /\ \A id \in 1..stt.nextId :
          Cardinality({x \in {"queued", "sent", "dropped"} :
                          \/ x = "queued" /\ id \in QueuedIds
                          \/ x = "sent" /\ id \in SentIds
                          \/ x = "dropped" /\ id \in stt.dropped}) = 1

\* C8 witness: a chunk pushed before start_ack has been sent.
C8_Witness ==
    /\ stt.startAckSeen
    /\ \E i \in SentOfType("chunk") : stt.sent[i].early
    /\ stt.dropped = {}

\* C9: the stop() promise resolves only with a transcript that is non-empty
\* after trimming and a non-empty session id: the trimmed text of the last
\* final and the session id delivered last (the configured one if none was).
C9_ResolvesWithFinal ==
    stt.donePromise = "resolved" =>
        /\ stt.doneValue.text = Trim(stt.rcvText)
        /\ stt.doneValue.text # <<>>
        /\ stt.doneValue.session_id = stt.rcvSessionId
        /\ stt.doneValue.session_id # ""

\* C9 witness: start_ack{s1}, final{" m ", s1}, done resolve with {m, s1}.
C9_Witness ==
    /\ stt.donePromise = "resolved"
    /\ stt.configSessionId = ""
    /\ stt.startAckSeen
    /\ stt.rcvText = <<" ", "m", " ">>
    /\ stt.doneValue = [text |-> <<"m">>, session_id |-> "s1"]
    /\ stt.readyState = "CLOSING"

\* C10 as stated: once the socket has closed the stop() promise is settled,
\* and a rejection that no server error message caused is marked retryable.
C10_SettledOnceClosed ==
    stt.readyState = "CLOSED" =>
        /\ stt.donePromise # "pending"
        /\ (stt.donePromise = "rejected" /\ ~stt.serverError) =>
              stt.doneError.retryable = "true"

----------------------------------------------------------------------------
(* Claims about the pure helpers (SpecPure) *)

\* C6 as stated: shouldFallbackToSse(error) is true exactly when
\* error.retryable !== false (a missing field reads as undefined).
C6_FallbackUnlessFalse ==
    (pure.pc = "returned" /\ pure.fn = "shouldFallbackToSse" /\ pure.arg.kind # "null")
        => pure.out = NotStrictlyFalse(pure.arg.retryable)

----------------------------------------------------------------------------
(* Claims about cancel() of the STT session (SpecStt) *)

AudioFrames(sent) == SelectSeq(sent, LAMBDA f : f.type \in {"chunk", "stop"})

\* C11: once cancel() has been called no chunk or stop frame is sent any more,
\* the links already chained on the send queue included; the call itself tears
\* the session down at once (stopped set, socket closing) and leaves the queued
\* links where they are instead of running or awaiting them.
C11_NoSendAfterCancel ==
    [][ /\ stt'.cancelled => AudioFrames(stt'.sent) = AudioFrames(stt.sent)
        /\ (~stt.cancelled /\ stt'.cancelled) =>
              /\ stt'.stopped
              /\ stt'.readyState \notin {"CONNECTING", "OPEN"}
              /\ stt'.sendQueue = stt.sendQueue ]_vars

\* C11 witness: cancel() was called with an open socket after start_ack while a
\* chunk link was encoding and a stop link was chained behind it; both links
\* ended without a frame.
C11_Witness ==
    /\ stt.cancelled
    /\ stt.startAckSeen
    /\ stt.sendQueue = <<>>
    /\ Cardinality(stt.dropped) >= 2
    /\ AudioFrames(stt.sent) = <<>>
    /\ ~stt.chainRejected

----------------------------------------------------------------------------
(* The agent loop of a stream, the Pending Agent Resume State in            *)
(* localStorage, and page reloads                                           *)
(*                                                                          *)
(* socket.onmessage is an async function: a tool_calls handler suspends in  *)
(* `await executeTool(call)` and other messages are handled meanwhile, a    *)
(* further tool_calls batch included.  A reload of the page ends every      *)
(* handler and keeps only localStorage.                                     *)

RESUME_TTL_MS == 60000

\* A tool call of a batch; args are not looked at by the loop.
Call(call_id, tool) == [call_id |-> call_id, tool |-> tool]

ToolResult(call_id, result) == [call_id |-> call_id, result |-> result]

\* The `calls` arrays the server sends; call ids are unique within a batch.
Batches ==
    { <<>>,
      <<Call("a", "navigate")>>,
      <<Call("a", "interact"), Call("b", "scroll")>>,
      <<Call("a", "navigate"), Call("b", "navigate")>>,
      <<Call("a", "interact"), Call("b", "navigate"), Call("c", "scroll")>> }

\* The delta strings of reply_delta messages.
Deltas == { <<" ">>, <<"m">> }

\* The final_reply values of agent_done ("" also stands for a missing field).
Replies == {"", "reply"}

\* executeSingleToolCall: the result carries the call's id; it never throws.
executeTool(call) == ToolResult(call.call_id, "executed")

\* localStorage[RESUME_STORAGE_KEY]
NoRecord == [kind |-> "none"]
Garbage == [kind |-> "garbage"]      \* a value JSON.parse throws on

\* The record (rid: the page that wrote it) a batch of three calls leaves when
\* the page reloads in its navigate call.
SavedRecord ==
    [ kind             |-> "record",
      rid              |-> 0 - 1,
      pendingToolCalls |-> <<Call("a", "interact"), Call("b", "navigate"),
                             Call("c", "scroll")>>,
      completedResults |-> <<ToolResult("a", "executed")>>,
      savedAt          |-> 0 ]

AgentInit(storage) ==
    [ page             |-> "loading",  \* loading | ready
      storage          |-> storage,
      now              |-> 0,          \* Date.now()
      reloads          |-> 0,          \* page reloads so far; names the page
      resumed          |-> <<>>,       \* rid of the record each resume stream started from
      stream           |-> "none",     \* none | voice | text | resume
      isStopped        |-> FALSE,
      readyState       |-> "NONE",     \* of the agent socket
      loop             |-> "none",     \* none | pending | resolved | rejected
      reply            |-> "",         \* what the loop promise resolved with
      error            |-> NullError,  \* what the loop promise rejected with
      errorEmitted     |-> FALSE,
      finalReply       |-> "",
      resolved         |-> FALSE,
      accumulatedDelta |-> <<>>,
      handlers         |-> <<>>,       \* one per tool_calls message, by arrival
      sent             |-> <<>>,       \* frames sent on the agent socket
      log              |-> <<>>,       \* what the last task did, in order
      rcvDelta         |-> <<>>,       \* deltas delivered since the last tool_calls
      terminal         |-> "none",     \* none | agent_done | error: delivered terminal message
      msgs             |-> 0,          \* messages delivered on the socket
      resumeState      |-> NoRecord,   \* the record a resumed stream was built from
      phase            |-> "none",     \* where donePromise's executor is: none | stt |
                                       \* loop | ttsWs | ttsSse | playback | finished
      done             |-> "none",     \* none | pending | resolved | rejected
      settleCalls      |-> 0,          \* resolve() and reject() calls of donePromise
      onErrorCalls     |-> 0,          \* events.onError calls
      chatErrors       |-> 0,          \* error messages the chat window appended
      activeSocket     |-> "none",     \* none | agent | tts
      ttsReadyState    |-> "NONE",     \* of the TTS socket
      activeReader     |-> "none",     \* none | reading | cancelled
      closeCalls       |-> 0 ]         \* close() calls on the two sockets

Handler(calls) == [calls |-> calls, i |-> 1, results |-> <<>>, pc |-> "running"]

\* Something a task did for call i of batch b; text is the argument of
\* onIntermediateReply.
Event(ev, b, i, text) == [ev |-> ev, b |-> b, i |-> i, text |-> text]

Logged(a, ev, b, i) == [a EXCEPT !.log = Append(@, Event(ev, b, i, <<>>))]

\* The state a task starts from.
Task0(a) == [a EXCEPT !.log = <<>>]

DoneHandler == [calls |-> <<>>, i |-> 1, results |-> <<>>, pc |-> "done"]

PendingToolCalls(calls) == [k \in 1..Len(calls) |-> Call(calls[k].call_id, calls[k].tool)]

savePendingAgentResume(a, pendingToolCalls, completedResults) ==
    [a EXCEPT !.storage = [ kind             |-> "record",
                            rid              |-> a.reloads,
                            pendingToolCalls |-> pendingToolCalls,
                            completedResults |-> completedResults,
                            savedAt          |-> a.now ]]

clearPendingAgentResume(a) == [a EXCEPT !.storage = NoRecord]

\* Whether getPendingAgentResume returns the stored record.
RecordReturned(a) ==
    /\ a.storage.kind = "record"
    /\ ~(a.now - a.storage.savedAt > RESUME_TTL_MS)

\* getPendingAgentResume: the storage it leaves behind.
getPendingAgentResume(a) ==
    IF a.storage.kind = "none" THEN a
    ELSE IF RecordReturned(a) THEN a
    ELSE clearPendingAgentResume(a)

finish(a, reply) ==
    IF a.resolved THEN a
    ELSE [a EXCEPT !.resolved = TRUE, !.loop = "resolved", !.reply = reply]

fail(a, message) ==
    IF a.resolved THEN a
    ELSE [a EXCEPT !.resolved = TRUE, !.loop = "rejected",
                   !.error = ErrorValue("object", FALSE, "undefined", message)]

\* socket.close() guarded by readyState <= OPEN, or called by the peer
AgentSocketClose(a) ==
    IF a.readyState \in {"CONNECTING", "OPEN"}
    THEN [a EXCEPT !.readyState = "CLOSING"]
    ELSE a

\* new WebSocket(wsUrl) in the executor of the loop promise
OpenAgentSocket(a, variant) ==
    [a EXCEPT !.stream = variant, !.loop = "pending", !.readyState = "CONNECTING"]

\* Mutant: the accumulated text is kept for the next batch as well.
ResetDelta_keep(a) == a

ResetDelta(a) == [a EXCEPT !.accumulatedDelta = <<>>]

\* `if (accumulatedDelta.trim()) onIntermediateReply(...)`, then the reset.
FlushDelta(a, b) ==
    ResetDelta(
        IF Trim(a.accumulatedDelta) # <<>>
        THEN [a EXCEPT !.log = Append(@, Event("intermediate", b, 0,
                                               Trim(a.accumulatedDelta)))]
        ELSE a)

\* Mutant: no call is treated as a navigation.
IsNavigate_never(call) == FALSE

IsNavigate(call) == call.tool = "navigate"

\* The loop body up to `await executeTool(call)` for call i of batch b.
StartCall(a, b) ==
    LET h    == a.handlers[b]
        call == h.calls[h.i]
        a1   == IF IsNavigate(call)
                THEN Logged(savePendingAgentResume(a, PendingToolCalls(h.calls), h.results),
                            "save", b, h.i)
                ELSE a
    IN  Logged(a1, "exec", b, h.i)

\* After the for loop: the batched tool_results, if the socket is still open.
SendResults(a, b) ==
    LET a1 == IF a.readyState = "OPEN"
              THEN Logged([a EXCEPT !.sent = Append(@, [type    |-> "tool_results",
                                                         results |-> a.handlers[b].results])],
                          "send", b, 0)
              ELSE a
    IN  [a1 EXCEPT !.handlers[b] = DoneHandler]

\* Mutant: the results are sent as soon as the first call has returned.
BatchComplete_afterFirst(h) == h.i > 1 \/ h.i > Len(h.calls)

BatchComplete(h) == h.i > Len(h.calls)

\* The for loop of batch b at its loop test.
RunBatch(a, b) ==
    IF BatchComplete(a.handlers[b]) THEN SendResults(a, b) ELSE StartCall(a, b)

\* The loop body after `await executeTool(call)` returned `result`.
AfterExecute(a, b, result) ==
    LET h    == a.handlers[b]
        call == h.calls[h.i]
        a1   == Logged(a, "return", b, h.i)
        a2   == IF IsNavigate(call)
                THEN Logged(clearPendingAgentResume(a1), "clear", b, h.i)
                ELSE a1
    IN  RunBatch([a2 EXCEPT !.handlers[b].results = Append(@, result),
                            !.handlers[b].i = @ + 1], b)

\* onmessage, type tool_calls with an array of calls
onToolCalls(a, calls) ==
    LET b  == Len(a.handlers) + 1
        a1 == FlushDelta(a, b)
        a2 == Logged([a1 EXCEPT !.handlers = Append(@, Handler(calls))],
                     "tool_calls", b, Len(calls))
    IN  RunBatch(a2, b)

\* onmessage, type reply_delta with a string delta
onReplyDelta(a, delta) == [a EXCEPT !.accumulatedDelta = @ \o delta]

\* onmessage, type agent_done
onAgentDone(a, final_reply) ==
    finish([a EXCEPT !.finalReply = final_reply], final_reply)

\* onmessage, type error
onAgentError(a) == fail([a EXCEPT !.errorEmitted = TRUE], "Agent error")

agentOnerror(a) ==
    fail([a EXCEPT !.errorEmitted = TRUE], "Agent WebSocket connection error")

agentOnclose(a) == finish(a, a.finalReply)

\* The result a resumed stream reports for a pending call that has none.
SynthesizedResult(tc) ==
    IF tc.tool = "navigate"
    THEN ToolResult(tc.call_id, "navigated_after_reload")
    ELSE ToolResult(tc.call_id, "not_executed_after_reload")

\* Mutant: a pending call gets a synthesized result even when it has a
\* completed one.
HasResult_never(allResults, tc) == FALSE

HasResult(allResults, tc) ==
    \E j \in 1..Len(allResults) : allResults[j].call_id = tc.call_id

\* The loop of agentResumeStream over resumeState.pendingToolCalls, from k on.
RECURSIVE MergeResults(_, _, _)
MergeResults(allResults, pendingToolCalls, k) ==
    IF k > Len(pendingToolCalls) THEN allResults
    ELSE LET tc == pendingToolCalls[k] IN
         IF HasResult(allResults, tc)
         THEN MergeResults(allResults, pendingToolCalls, k + 1)
         ELSE MergeResults(Append(allResults, SynthesizedResult(tc)), pendingToolCalls, k + 1)

ResumeResults(resumeState) ==
    MergeResults(resumeState.completedResults, resumeState.pendingToolCalls, 1)

\* agentOnopen: the start frame, or the resume frame of a resumed stream.
agentOnopen(a) ==
    [a EXCEPT !.readyState = "OPEN",
              !.sent = Append(@, IF a.stream = "resume"
                                 THEN [type               |-> "resume",
                                       pending_tool_calls |-> a.resumeState.pendingToolCalls,
                                       tool_results       |-> ResumeResults(a.resumeState)]
                                 ELSE [type |-> "start"])]

\* Mutant: the loader leaves the record it returned in storage.
ConsumeRecord_keep(a) == a

\* The resume effect's clearPendingAgentResume() after a record was returned.
ConsumeRecord(a) == clearPendingAgentResume(a)

\* A page's JavaScript state at load, the storage and the clock kept.
FreshPage(a) ==
    [AgentInit(a.storage) EXCEPT !.now = a.now, !.reloads = a.reloads,
                                 !.resumed = a.resumed]

(* Actions *)

\* The resume effect of the chat window on page start.
PageStart ==
    /\ agent.page = "loading"
    /\ agent' =
         LET a  == Task0(agent)
             a1 == getPendingAgentResume(a)
         IN  IF RecordReturned(a)
             THEN OpenAgentSocket([ConsumeRecord(a1) EXCEPT
                                       !.page = "ready",
                                       !.resumed = Append(@, a.storage.rid),
                                       !.resumeState = a.storage], "resume")
             ELSE [a1 EXCEPT !.page = "ready"]
    /\ UNCHANGED <<ctl, tts, stt, pure, play>>

\* agentVoiceChatStream (after its transcription) or agentTextChatStream.
StartStream(variant) ==
    /\ agent.page = "ready"
    /\ agent.stream = "none"
    /\ agent' = OpenAgentSocket(Task0(agent), variant)
    /\ UNCHANGED <<ctl, tts, stt, pure, play>>

AgentOpen ==
    /\ agent.page = "ready"
    /\ agent.readyState = "CONNECTING"
    /\ agent' = agentOnopen(Task0(agent))
    /\ UNCHANGED <<ctl, tts, stt, pure, play>>

AgentReplyDelta(delta) ==
    /\ agent.page = "ready"
    /\ agent.readyState = "OPEN"
    /\ agent.msgs < MaxAgentMsgs
    /\ agent' = [onReplyDelta(Task0(agent), delta) EXCEPT !.msgs = @ + 1,
                                                          !.rcvDelta = @ \o delta]
    /\ UNCHANGED <<ctl, tts, stt, pure, play>>

AgentToolCalls(calls) ==
    /\ agent.page = "ready"
    /\ agent.readyState = "OPEN"
    /\ agent.msgs < MaxAgentMsgs
    /\ Len(agent.handlers) < MaxBatches
    /\ agent' = [onToolCalls(Task0(agent), calls) EXCEPT !.msgs = @ + 1,
                                                         !.rcvDelta = <<>>]
    /\ UNCHANGED <<ctl, tts, stt, pure, play>>

\* executeTool returns for the call that batch b is waiting on.
ToolReturns(b) ==
    /\ agent.page = "ready"
    /\ b \in 1..Len(agent.handlers)
    /\ agent.handlers[b].pc = "running"
    /\ agent' = LET h == agent.handlers[b]
                 IN  AfterExecute(Task0(agent), b, executeTool(h.calls[h.i]))
    /\ UNCHANGED <<ctl, tts, stt, pure, play>>

AgentDone(final_reply) ==
    /\ agent.page = "ready"
    /\ agent.readyState = "OPEN"
    /\ agent.msgs < MaxAgentMsgs
    /\ agent' = [onAgentDone(Task0(agent), final_reply) EXCEPT
                     !.msgs = @ + 1,
                     !.terminal = IF @ = "none" THEN "agent_done" ELSE @]
    /\ UNCHANGED <<ctl, tts, stt, pure, play>>

AgentErrorMsg ==
    /\ agent.page = "ready"
    /\ agent.readyState = "OPEN"
    /\ agent.msgs < MaxAgentMsgs
    /\ agent' = [onAgentError(Task0(agent)) EXCEPT
                     !.msgs = @ + 1,
                     !.terminal = IF @ = "none" THEN "error" ELSE @]
    /\ UNCHANGED <<ctl, tts, stt, pure, play>>

\* The connection fails: the error event, then the close event.
AgentTransportFail ==
    /\ agent.page = "ready"
    /\ agent.readyState \in {"CONNECTING", "OPEN", "CLOSING"}
    /\ agent' = agentOnclose(agentOnerror([Task0(agent) EXCEPT !.readyState = "CLOSED"]))
    /\ UNCHANGED <<ctl, tts, stt, pure, play>>

\* The close event alone (the server closed, or a close() completed).
AgentClose ==
    /\ agent.page = "ready"
    /\ agent.readyState \in {"OPEN", "CLOSING"}
    /\ agent' = agentOnclose([Task0(agent) EXCEPT !.readyState = "CLOSED"])
    /\ UNCHANGED <<ctl, tts, stt, pure, play>>

\* stop() of the stream controller while the agent loop is pending.
AgentStop ==
    /\ agent.page = "ready"
    /\ agent.loop = "pending"
    /\ ~agent.isStopped
    /\ agent' = AgentSocketClose([Task0(agent) EXCEPT !.isStopped = TRUE])
    /\ UNCHANGED <<ctl, tts, stt, pure, play>>

\* The page is reloaded (a navigate tool's full-page navigation, or the user).
Reload(elapsed) ==
    /\ agent.page = "ready"
    /\ agent.reloads < MaxReloads
    /\ agent' = FreshPage([Task0(agent) EXCEPT !.now = @ + elapsed, !.reloads = @ + 1])
    /\ UNCHANGED <<ctl, tts, stt, pure, play>>

\* One page: a fresh or a resumed stream and its agent loop.
InitAgent ==
    /\ agent \in {AgentInit(NoRecord), AgentInit(SavedRecord)}
    /\ ctl = CtlInit("text")
    /\ tts = TtsIdle
    /\ stt = SttIdle
    /\ pure = PureIdle
    /\ play = PlayIdle

NextAgent ==
    \/ PageStart
    \/ \E variant \in {"voice", "text"} : StartStream(variant)
    \/ AgentOpen
    \/ \E delta \in Deltas : AgentReplyDelta(delta)
    \/ \E calls \in Batches : AgentToolCalls(calls)
    \/ \E b \in 1..MaxBatches : ToolReturns(b)
    \/ \E final_reply \in Replies : AgentDone(final_reply)
    \/ AgentErrorMsg
    \/ AgentTransportFail
    \/ AgentClose
    \/ AgentStop

SpecAgent == InitAgent /\ [][NextAgent]_vars

\* Pages in a row: tool batches, reloads, and the resume effect of each page.
InitResume ==
    /\ agent \in {AgentInit(NoRecord), AgentInit(Garbage)}
    /\ ctl = CtlInit("resume")
    /\ tts = TtsIdle
    /\ stt = SttIdle
    /\ pure = PureIdle
    /\ play = PlayIdle

NextResume ==
    \/ PageStart
    \/ StartStream("text")
    \/ AgentOpen
    \/ \E calls \in Batches : AgentToolCalls(calls)
    \/ \E b \in 1..MaxBatches : ToolReturns(b)
    \/ \E elapsed \in {RESUME_TTL_MS, RESUME_TTL_MS + 1} : Reload(elapsed)

SpecResume == InitResume /\ [][NextResume]_vars

----------------------------------------------------------------------------
(* Claims about the agent loop (SpecAgent) *)

\* The step delivers a tool_calls message: a handler is added.
ToolCallsStep == Len(agent'.handlers) = Len(agent.handlers) + 1

LogIndexes(a, ev) == {k \in 1..Len(a.log) : a.log[k].ev = ev}

\* C12: the task that handles a tool_calls message delivers the text of all
\* reply_delta messages received since the previous tool_calls message,
\* trimmed, to onIntermediateReply when it is not blank, before it starts the
\* first tool of the batch, and leaves the accumulator empty; no other task
\* delivers an intermediate reply.
C12_DeltaFlushedBeforeTools ==
    [][ /\ ToolCallsStep =>
              LET text == Trim(agent.rcvDelta)
                  b    == Len(agent'.handlers)
              IN  /\ agent'.accumulatedDelta = <<>>
                  /\ IF text # <<>>
                     THEN /\ LogIndexes(agent', "intermediate") = {1}
                          /\ agent'.log[1] = Event("intermediate", b, 0, text)
                          /\ \A k \in LogIndexes(agent', "exec") : k > 1
                     ELSE LogIndexes(agent', "intermediate") = {}
        /\ ~ToolCallsStep => LogIndexes(agent', "intermediate") = {} ]_vars

\* C12 witness: " " and "m" were received, then a batch: "m" was delivered and
\* the first tool of the batch started after that.
C12_Witness ==
    /\ agent.msgs = 3
    /\ Len(agent.log) >= 3
    /\ agent.log[1] = Event("intermediate", 1, 0, <<"m">>)
    /\ agent.log[Len(agent.log)].ev = "exec"
    /\ agent.accumulatedDelta = <<>>

\* The call a running handler is waiting on.
CurrentCall(h) == h.calls[h.i]

Running(a) == {b \in 1..Len(a.handlers) : a.handlers[b].pc = "running"}

\* What the record of batch b's handler h holds when written for its current call.
ResumeRecordOf(a, h) ==
    [ kind             |-> "record",
      rid              |-> a.reloads,
      pendingToolCalls |-> PendingToolCalls(h.calls),
      completedResults |-> h.results,
      savedAt          |-> a.now ]

\* The executor is invoked for a navigate call only right after the record
\* of its batch was written, and the record is erased right after it returns.
SavedAroundNavigate ==
    /\ \A k \in LogIndexes(agent', "exec") :
          LET e == agent'.log[k]
              h == agent'.handlers[e.b]
          IN  CurrentCall(h).tool = "navigate" =>
                  /\ k > 1
                  /\ agent'.log[k - 1] = Event("save", e.b, e.i, <<>>)
                  /\ agent'.storage = ResumeRecordOf(agent', h)
    /\ \A k \in LogIndexes(agent', "return") :
          LET e == agent'.log[k]
          IN  agent.handlers[e.b].calls[e.i].tool = "navigate" =>
                  /\ k < Len(agent'.log)
                  /\ agent'.log[k + 1] = Event("clear", e.b, e.i, <<>>)

\* Batch b finishes in this step.
Finishes(b) ==
    /\ b \in 1..Len(agent'.handlers)
    /\ agent'.handlers[b].pc = "done"
    /\ (b \in 1..Len(agent.handlers) => agent.handlers[b].pc = "running")

ResultsMatch(results, calls) ==
    /\ Len(results) = Len(calls)
    /\ \A k \in 1..Len(calls) : results[k].call_id = calls[k].call_id

\* C14: a batch executes one call at a time in the order received (call i is
\* started once the results of calls 1..i-1 are there), and its tool_results
\* frame is sent once, after its last call returned, with one result per call
\* in call order and with the call's id.
C14_BatchSequential ==
    [][ /\ \A k \in LogIndexes(agent', "exec") :
              LET e == agent'.log[k]
                  h == agent'.handlers[e.b]
              IN  /\ h.pc = "running"
                  /\ h.i = e.i
                  /\ ResultsMatch(h.results, SubSeq(h.calls, 1, e.i - 1))
                  /\ (e.b \in 1..Len(agent.handlers) => agent.handlers[e.b].i = e.i - 1)
                  /\ (e.b \notin 1..Len(agent.handlers) => e.i = 1)
                  /\ Cardinality(LogIndexes(agent', "exec")) = 1
        /\ \A k \in LogIndexes(agent', "send") :
              LET e     == agent'.log[k]
                  frame == agent'.sent[Len(agent'.sent)]
              IN  /\ Finishes(e.b)
                  /\ Len(agent'.sent) = Len(agent.sent) + 1
                  /\ frame.type = "tool_results"
                  /\ Cardinality(LogIndexes(agent', "send")) = 1
                  /\ IF e.b \in 1..Len(agent.handlers)
                     THEN /\ agent.handlers[e.b].i = Len(agent.handlers[e.b].calls)
                          /\ ResultsMatch(frame.results, agent.handlers[e.b].calls)
                     ELSE /\ agent'.log[k - 1] = Event("tool_calls", e.b, 0, <<>>)
                          /\ frame.results = <<>>
        /\ Len(agent'.sent) > Len(agent.sent) =>
              \/ LogIndexes(agent', "send") # {}
              \/ agent.readyState = "CONNECTING" ]_vars

\* C14 witness: the frame of a batch of three calls was just sent.
C14_Witness ==
    /\ agent.log # <<>>
    /\ agent.log[Len(agent.log)].ev = "send"
    /\ agent.sent[Len(agent.sent)] =
          [type |-> "tool_results",
           results |-> <<ToolResult("a", "executed"), ToolResult("b", "executed"),
                         ToolResult("c", "executed")>>]

\* C15 as stated: once the socket has closed with neither agent_done nor
\* error delivered (and no transport error, no stop()), the loop has succeeded
\* if a final reply was captured and has otherwise failed with a retryable
\* error.
C15_CloseWithoutReplyFails ==
    ( /\ agent.page = "ready"
      /\ agent.readyState = "CLOSED"
      /\ agent.terminal = "none"
      /\ ~agent.errorEmitted
      /\ ~agent.isStopped )
    => IF agent.finalReply # ""
       THEN agent.loop = "resolved" /\ agent.reply = agent.finalReply
       ELSE agent.loop = "rejected" /\ agent.error.retryable = "true"

----------------------------------------------------------------------------
(* Claims about the resume after a reload (SpecResume) *)

ResumeFrames == {k \in 1..Len(agent.sent) : agent.sent[k].type = "resume"}

ResultsFor(results, call_id) == {j \in 1..Len(results) : results[j].call_id = call_id}

\* C16: the tool_results of a resume frame hold exactly one result for each
\* pending call id: the completed result of the saved record when it has one,
\* else the synthesized navigation result for a navigate call and the
\* not-executed placeholder for any other tool.
C16_ResumeResultsComplete ==
    \A f \in ResumeFrames :
        LET rs  == agent.resumeState
            out == agent.sent[f].tool_results
        IN  /\ agent.sent[f].pending_tool_calls = rs.pendingToolCalls
            /\ \A k \in 1..Len(rs.pendingToolCalls) :
                  LET tc   == rs.pendingToolCalls[k]
                      done == ResultsFor(rs.completedResults, tc.call_id)
                      got  == ResultsFor(out, tc.call_id)
                  IN  /\ Cardinality(got) = 1
                      /\ \A j \in got :
                            IF done # {}
                            THEN \E d \in done : out[j] = rs.completedResults[d]
                            ELSE out[j] = ToolResult(tc.call_id,
                                              IF tc.tool = "navigate"
                                              THEN "navigated_after_reload"
                                              ELSE "not_executed_after_reload")

\* C16 witness: the page reloaded in the second of three calls; the resume
\* frame holds the first call's result, a navigation result and a placeholder.
C16_Witness ==
    /\ ResumeFrames # {}
    /\ agent.sent[1].tool_results =
          << ToolResult("a", "executed"),
             ToolResult("b", "navigated_after_reload"),
             ToolResult("c", "not_executed_after_reload") >>

\* The step is the resume effect of a page.
PageStartStep == agent.page = "loading" /\ agent'.page = "ready"

\* C17: the resume effect leaves no record in storage, whatever it found; it
\* starts a resume stream only from a parseable record not older than
\* RESUME_TTL_MS, and no record starts more than one resume stream.
C17_ConsumedAtMostOnce ==
    [][ /\ PageStartStep =>
              /\ agent'.storage = NoRecord
              /\ (agent'.stream = "resume") =
                    ( /\ agent.storage.kind = "record"
                      /\ agent.now - agent.storage.savedAt <= RESUME_TTL_MS )
              /\ agent'.stream \in {"none", "resume"}
        /\ \A i, j \in 1..Len(agent'.resumed) :
              agent'.resumed[i] = agent'.resumed[j] => i = j
        /\ ~PageStartStep => agent'.resumed = agent.resumed ]_vars

\* C17 witness: a page was resumed from the record of the first page, and the
\* page after it found nothing to resume.
C17_Witness ==
    /\ agent.reloads = 2
    /\ agent.resumed = <<0>>
    /\ agent.page = "ready"
    /\ agent.stream = "none"

----------------------------------------------------------------------------
(* Audio playback: the playback generation, the registry of active audio    *)
(* elements, and the playback tasks (speakText, playBufferedAudio)          *)
(*                                                                          *)
(* A task owns at most one audio element, named by the task.  The promise   *)
(* of audioElement.play() is pending until the element either fails or is   *)
(* about to play; the browser then takes it off the element's pending list  *)
(* and queues a task that resolves it.  pause() rejects the promises still  *)
(* on the list, and load() settles at once those whose task is queued.      *)

PlayTasks == {"t1", "t2"}

NoSnapshot == 0 - 1

PlayTask ==
    [ pc          |-> "idle",     \* idle | collecting | awaitPlay | awaitEnd | settled
      kind        |-> "none",     \* none | speakText | playBufferedAudio
      snapshot    |-> NoSnapshot, \* playbackGeneration of speakText
      pbSnapshot  |-> NoSnapshot, \* playbackGeneration of playBufferedAudio
      stopsAtStart |-> 0,         \* stop calls made before the first snapshot
      playPromise |-> "none",     \* none | pending | taken | resolved | rejected
      element     |-> FALSE,      \* new Audio() was reached
      hasSrc      |-> FALSE,      \* the element has its src attribute
      reported    |-> <<>>,       \* arguments of onAudioStateChange, in order
      lateState   |-> FALSE,      \* "playing" was reported with the generation advanced
      outcome     |-> "pending" ] \* pending | resolved | rejected

PlayInit ==
    [ pc                      |-> "active",
      audioPlaybackGeneration |-> 0,
      activeAudioElements     |-> {},
      objectUrls              |-> {},   \* object URLs created and not revoked
      stops                   |-> 0,    \* stopActiveAudioPlayback() calls
      tasks                   |-> [t \in PlayTasks |-> PlayTask] ]

wasPlaybackStoppedAfter(p, generationAtStart) ==
    p.audioPlaybackGeneration # generationAtStart

getAudioPlaybackGeneration(p) == p.audioPlaybackGeneration

\* onAudioStateChange?.(state) of task t
Report(p, t, state) == [p EXCEPT !.tasks[t].reported = Append(@, state)]

SettleTask(p, t, outcome) ==
    [p EXCEPT !.tasks[t].pc = "settled", !.tasks[t].outcome = outcome]

\* Mutant: the element stays registered and its URL alive.
ReleaseElement_skip(p, t) == p

\* The finally block of playBufferedAudio.
ReleaseElement(p, t) ==
    [p EXCEPT !.activeAudioElements = @ \ {t},
              !.tasks[t].hasSrc = FALSE,
              !.objectUrls = @ \ {t}]

\* playBufferedAudio after `await waitForPlaybackEnd` resolved.
AfterPlaybackEnd(p, t) ==
    SettleTask(ReleaseElement(Report(p, t, "done"), t), t, "resolved")

\* The catch block of playBufferedAudio, and its finally.
PlaybackFailed(p, t) ==
    SettleTask(ReleaseElement(Report(p, t, "done"), t), t, "rejected")

\* playBufferedAudio after `await audioElement.play()` resolved, up to the
\* wait inside waitForPlaybackEnd.
AfterPlay(p, t) ==
    LET p1 == Report([p EXCEPT !.tasks[t].playPromise = "resolved",
                                !.tasks[t].lateState =
                                    wasPlaybackStoppedAfter(p, p.tasks[t].pbSnapshot)],
                     t, "playing")
    IN  [p1 EXCEPT !.tasks[t].pc = "awaitEnd"]

\* playBufferedAudio up to `await audioElement.play()`.
playBufferedAudio(p, t, nChunks) ==
    LET playbackGeneration == getAudioPlaybackGeneration(p)
        p1 == [p EXCEPT !.tasks[t].pbSnapshot = playbackGeneration]
    IN  IF nChunks = 0
        THEN SettleTask(Report(p1, t, "done"), t, "resolved")
        ELSE IF wasPlaybackStoppedAfter(p1, playbackGeneration)
        THEN SettleTask(Report(p1, t, "done"), t, "resolved")
        ELSE LET p2 == [Report(p1, t, "fallback") EXCEPT
                            !.tasks[t].element = TRUE,
                            !.tasks[t].hasSrc = TRUE,
                            !.objectUrls = @ \cup {t},
                            !.activeAudioElements = @ \cup {t}]
             IN  IF wasPlaybackStoppedAfter(p2, playbackGeneration)
                 THEN SettleTask(ReleaseElement(Report(p2, t, "done"), t), t, "resolved")
                 ELSE [p2 EXCEPT !.tasks[t].pc = "awaitPlay",
                                 !.tasks[t].playPromise = "pending"]

\* speakText up to `await collectTtsViaWebSocket`.
speakText(p, t, blank) ==
    IF blank THEN SettleTask([p EXCEPT !.tasks[t].kind = "speakText"], t, "resolved")
    ELSE Report([p EXCEPT !.tasks[t].kind = "speakText",
                          !.tasks[t].snapshot = getAudioPlaybackGeneration(p),
                          !.tasks[t].stopsAtStart = p.stops,
                          !.tasks[t].pc = "collecting"],
                t, "rendering")

\* speakText after the TTS collection returned nChunks chunks.
AfterSpeakCollect(p, t, nChunks) ==
    IF wasPlaybackStoppedAfter(p, p.tasks[t].snapshot)
    THEN SettleTask(Report(p, t, "done"), t, "resolved")
    ELSE IF nChunks > 0
    THEN playBufferedAudio(p, t, nChunks)
    ELSE SettleTask(Report(p, t, "done"), t, "resolved")

\* What stopActiveAudioPlayback and the microtasks after it do to the task of
\* one registered element: the stop event ends waitForPlaybackEnd, pause()
\* rejects a pending play() promise, load() resolves one whose resolution was
\* already queued.
StopElement(p, t) ==
    LET task == p.tasks[t]
        p1   == [p EXCEPT !.tasks[t].hasSrc = FALSE]
    IN  IF task.pc = "awaitEnd" THEN AfterPlaybackEnd(p1, t)
        ELSE IF task.pc = "awaitPlay" /\ task.playPromise = "pending"
        THEN PlaybackFailed([p1 EXCEPT !.tasks[t].playPromise = "rejected"], t)
        ELSE IF task.pc = "awaitPlay" /\ task.playPromise = "taken"
        THEN AfterPlay(p1, t)
        ELSE p1

RECURSIVE StopElements(_, _)
StopElements(p, active) ==
    IF active = {} THEN p
    ELSE LET t == CHOOSE x \in active : TRUE
         IN  StopElements(StopElement(p, t), active \ {t})

\* Mutant: the generation is left as it is.
BumpGeneration_none(p) == p

\* `audioPlaybackGeneration += 1`
BumpGeneration(p) == [p EXCEPT !.audioPlaybackGeneration = @ + 1]

stopActiveAudioPlayback(p) ==
    LET p1 == BumpGeneration(p)
    IN  StopElements(p1, p1.activeAudioElements)

(* Actions *)

SpeakText(t, blank) ==
    /\ play.tasks[t].pc = "idle"
    /\ play' = speakText(play, t, blank)
    /\ UNCHANGED <<ctl, tts, stt, pure, agent>>

\* collectTtsViaWebSocket, or collectTtsViaSse after it, returns to speakText.
SpeakCollected(t, nChunks) ==
    /\ play.tasks[t].pc = "collecting"
    /\ play' = AfterSpeakCollect(play, t, nChunks)
    /\ UNCHANGED <<ctl, tts, stt, pure, agent>>

\* collectTtsViaSse throws in speakText.
SpeakCollectThrows(t) ==
    /\ play.tasks[t].pc = "collecting"
    /\ play' = SettleTask(play, t, "rejected")
    /\ UNCHANGED <<ctl, tts, stt, pure, agent>>

\* A stream controller calls playBufferedAudio with its collected chunks.
PlayBufferedAudio(t, nChunks) ==
    /\ play.tasks[t].pc = "idle"
    /\ play' = playBufferedAudio([play EXCEPT !.tasks[t].kind = "playBufferedAudio",
                                              !.tasks[t].stopsAtStart = play.stops],
                                 t, nChunks)
    /\ UNCHANGED <<ctl, tts, stt, pure, agent>>

\* The element is about to play: the browser takes the play() promise off the
\* pending list and queues the task that resolves it.
PlayNotified(t) ==
    /\ play.tasks[t].pc = "awaitPlay"
    /\ play.tasks[t].playPromise = "pending"
    /\ play' = [play EXCEPT !.tasks[t].playPromise = "taken"]
    /\ UNCHANGED <<ctl, tts, stt, pure, agent>>

\* The queued task resolves the play() promise.
PlayResolved(t) ==
    /\ play.tasks[t].pc = "awaitPlay"
    /\ play.tasks[t].playPromise = "taken"
    /\ play' = AfterPlay(play, t)
    /\ UNCHANGED <<ctl, tts, stt, pure, agent>>

\* play() is refused (autoplay policy, unsupported source).
PlayRejected(t) ==
    /\ play.tasks[t].pc = "awaitPlay"
    /\ play.tasks[t].playPromise = "pending"
    /\ play' = PlaybackFailed([play EXCEPT !.tasks[t].playPromise = "rejected"], t)
    /\ UNCHANGED <<ctl, tts, stt, pure, agent>>

\* The element's ended event.
PlaybackEnded(t) ==
    /\ play.tasks[t].pc = "awaitEnd"
    /\ play.tasks[t].hasSrc
    /\ play' = AfterPlaybackEnd(play, t)
    /\ UNCHANGED <<ctl, tts, stt, pure, agent>>

\* The element's error event.
PlaybackError(t) ==
    /\ play.tasks[t].pc = "awaitEnd"
    /\ play.tasks[t].hasSrc
    /\ play' = PlaybackFailed(play, t)
    /\ UNCHANGED <<ctl, tts, stt, pure, agent>>

StopActiveAudioPlayback ==
    /\ play.pc = "active"
    /\ play.stops < MaxStops
    /\ play' = [stopActiveAudioPlayback(play) EXCEPT !.stops = @ + 1]
    /\ UNCHANGED <<ctl, tts, stt, pure, agent>>

InitPlay ==
    /\ play = PlayInit
    /\ ctl = CtlInit("text")
    /\ tts = TtsIdle
    /\ stt = SttIdle
    /\ pure = PureIdle
    /\ agent = AgentIdle

NextPlay ==
    \/ \E t \in PlayTasks, blank \in BOOLEAN : SpeakText(t, blank)
    \/ \E t \in PlayTasks, nChunks \in {0, 1} : SpeakCollected(t, nChunks)
    \/ \E t \in PlayTasks : SpeakCollectThrows(t)
    \/ \E t \in PlayTasks, nChunks \in {0, 1} : PlayBufferedAudio(t, nChunks)
    \/ \E t \in PlayTasks : PlayNotified(t)
    \/ \E t \in PlayTasks : PlayResolved(t)
    \/ \E t \in PlayTasks : PlayRejected(t)
    \/ \E t \in PlayTasks : PlaybackEnded(t)
    \/ \E t \in PlayTasks : PlaybackError(t)
    \/ StopActiveAudioPlayback

SpecPlay == InitPlay /\ [][NextPlay]_vars

\* What the browser guarantees: a play() promise is settled, the queued task
\* that resolves it runs, and an element that holds a source ends or fails.
\* Calls of speakText, playBufferedAudio and stopActiveAudioPlayback, and the
\* network of the TTS collection, are under no obligation.
PlaybackFairness ==
    \A t \in PlayTasks :
        /\ WF_vars(PlayNotified(t) \/ PlayRejected(t))
        /\ WF_vars(PlayResolved(t))
        /\ WF_vars(PlaybackEnded(t) \/ PlaybackError(t))

SpecPlayLive == SpecPlay /\ PlaybackFairness

----------------------------------------------------------------------------
(* Claims about the playback generation (SpecPlay) *)

\* The tasks that took a snapshot of the generation.
Snapshotted(p) == {t \in PlayTasks : p.tasks[t].snapshot # NoSnapshot
                                      \/ p.tasks[t].pbSnapshot # NoSnapshot}

FirstSnapshot(task) ==
    IF task.snapshot # NoSnapshot THEN task.snapshot ELSE task.pbSnapshot

\* C18: every stopActiveAudioPlayback() call adds exactly 1 to the generation
\* (n calls: n), no other step changes it, and a task that took its snapshot
\* before a call is stale after it.
C18_GenerationCountsStops ==
    /\ play.audioPlaybackGeneration = play.stops
    /\ \A t \in Snapshotted(play) :
          play.stops > play.tasks[t].stopsAtStart =>
              play.audioPlaybackGeneration # FirstSnapshot(play.tasks[t])

\* C18 witness: a task snapshotted generation 0 and two calls were made.
C18_Witness ==
    /\ play.stops = 2
    /\ play.audioPlaybackGeneration = 2
    /\ \E t \in PlayTasks : /\ play.tasks[t].snapshot = 0
                            /\ play.tasks[t].pc = "collecting"

\* C19 as stated: a task never reports "playing" once the generation has
\* advanced past its snapshot, and it calls play() only with the generation
\* at its snapshot.
C19_NoPlayingAfterStop ==
    \A t \in PlayTasks :
        /\ ~play.tasks[t].lateState
        /\ play.tasks[t].pc = "awaitPlay" /\ play.tasks[t].playPromise = "pending" =>
              play.audioPlaybackGeneration = play.tasks[t].pbSnapshot

\* C20: a task that created its element and settled has left the registry and
\* revoked its object URL, and the registry holds only elements of tasks that
\* are still awaiting play() or the end of playback.
C20_ElementReleased ==
    /\ \A t \in PlayTasks :
          play.tasks[t].pc = "settled" =>
              t \notin play.activeAudioElements /\ t \notin play.objectUrls
    /\ \A t \in play.activeAudioElements : play.tasks[t].pc \in {"awaitPlay", "awaitEnd"}
    /\ play.objectUrls = play.activeAudioElements

\* C20 witness: one task ended normally, the other was stopped while playing;
\* both created an element and nothing is left behind.
C20_Witness ==
    /\ play.tasks["t1"].element /\ play.tasks["t1"].outcome = "resolved"
    /\ play.tasks["t1"].reported = <<"fallback", "playing", "done">>
    /\ play.tasks["t2"].element /\ play.tasks["t2"].outcome = "rejected"
    /\ play.stops = 1
    /\ play.activeAudioElements = {}
    /\ play.objectUrls = {}

----------------------------------------------------------------------------
(* One turn of a stream controller: donePromise's executor around the agent *)
(* loop (transcription, loop, TTS over WebSocket, TTS over SSE, playback),  *)
(* its catch and finally, and stop()                                        *)
(*                                                                          *)
(* The continuation of the executor after the loop promise settled runs as  *)
(* a microtask of the task that settled it.                                 *)

\* The `calls` arrays of this specification.
TurnBatches ==
    { <<Call("a", "interact"), Call("b", "navigate")>> }

\* Mutant: the result of a failed call does not carry the call's id.
executeSingleToolCall_noId(call, throws) ==
    IF throws THEN ToolResult("", "Hata") ELSE executeTool(call)

\* executeSingleToolCall: what the call's executor throws is caught and
\* becomes the result string of the call.
executeSingleToolCall(call, throws) ==
    IF throws THEN ToolResult(call.call_id, "Hata") ELSE executeTool(call)

\* resolve() or reject() of donePromise: a settled promise stays as it is.
SettleDone(a, how) ==
    [a EXCEPT !.done = IF @ = "pending" THEN how ELSE @,
              !.settleCalls = @ + 1]

\* Mutant: close() is called whatever the socket's readyState.
CloseActiveSocket_unguarded(a) ==
    IF a.activeSocket = "agent"
    THEN [a EXCEPT !.readyState = "CLOSING", !.closeCalls = @ + 1]
    ELSE IF a.activeSocket = "tts"
    THEN [a EXCEPT !.ttsReadyState = "CLOSING", !.closeCalls = @ + 1]
    ELSE a

\* `if (activeSocket && activeSocket.readyState <= WebSocket.OPEN) activeSocket.close()`
CloseActiveSocket(a) ==
    IF a.activeSocket = "agent" /\ a.readyState \in {"CONNECTING", "OPEN"}
    THEN [a EXCEPT !.readyState = "CLOSING", !.closeCalls = @ + 1]
    ELSE IF a.activeSocket = "tts" /\ a.ttsReadyState \in {"CONNECTING", "OPEN"}
    THEN [a EXCEPT !.ttsReadyState = "CLOSING", !.closeCalls = @ + 1]
    ELSE a

\* `activeReader.cancel().catch(() => {})` when there is a reader
CancelActiveReader(a) ==
    [a EXCEPT !.activeReader = IF @ = "none" THEN @ ELSE "cancelled"]

\* The finally block of the executor.
TurnFinally(a) ==
    [CloseActiveSocket(CancelActiveReader(a)) EXCEPT !.activeSocket = "none",
                                                     !.phase = "finished"]

\* Mutant: resolve() without the return: the executor goes on into the TTS.
TurnResolve_fallThrough(a) ==
    [SettleDone(a, "resolved") EXCEPT !.phase = "ttsWs"]

\* `return resolve()` (or the last resolve()), and the finally block.
TurnResolve(a) == TurnFinally(SettleDone(a, "resolved"))

\* isCurrentRequestEpoch(requestEpoch) in the chat window's callbacks of the
\* turn: the window changes the epoch exactly where it calls stopActiveStream().
isCurrentRequestEpoch(a) == ~a.isStopped

\* The chat window's onError callback: appendMessage(`Hata: ${err}`).
WindowOnError(a) ==
    IF ~isCurrentRequestEpoch(a) THEN a ELSE [a EXCEPT !.chatErrors = @ + 1]

\* The chat window's catch around `await controller.done`; every rejection of
\* done carries an Error, so appendMessage(`Hata: ${error.message}`) runs.
WindowCatch(a) ==
    IF ~isCurrentRequestEpoch(a) THEN a ELSE [a EXCEPT !.chatErrors = @ + 1]

\* events.onError(msg)
ReportError(a) == WindowOnError([a EXCEPT !.onErrorCalls = @ + 1])

\* The catch block of the executor, the finally block, and the continuation of
\* the window's `await controller.done`.
TurnCatch(a) ==
    WindowCatch(
        TurnFinally(SettleDone(IF ~a.errorEmitted THEN ReportError(a) ELSE a, "rejected")))

\* `new WebSocket(wsUrl); activeSocket = socket` of the agent loop
TurnOpenAgentSocket(a) ==
    [OpenAgentSocket(a, a.stream) EXCEPT !.phase = "loop", !.activeSocket = "agent"]

\* The executor from `activeSocket = null` after the loop to the await of
\* collectTtsViaWebSocket, which hands its socket to activeSocket.
AfterAgentLoop(a) ==
    LET a1 == [a EXCEPT !.activeSocket = "none"]
    IN  IF a1.isStopped \/ a1.reply = ""
        THEN TurnResolve(a1)
        ELSE [a1 EXCEPT !.phase = "ttsWs", !.activeSocket = "tts",
                        !.ttsReadyState = "OPEN"]

\* The microtasks that follow a handler of the agent socket.
Continue(a) ==
    IF a.phase # "loop" \/ a.loop = "pending" THEN a
    ELSE IF a.loop = "rejected" THEN TurnCatch(a)
    ELSE AfterAgentLoop(a)

\* The executor after the TTS collection returned nChunks chunks, up to the
\* await of playBufferedAudio.
AfterTts(a, nChunks) ==
    IF ~a.isStopped /\ nChunks > 0
    THEN [a EXCEPT !.phase = "playback"]
    ELSE TurnResolve(a)

\* The catch of collectTtsViaWebSocket's failure, up to the await of
\* collectTtsViaSse, which hands its reader to activeReader.
AfterTtsWsThrow(a) ==
    IF a.isStopped THEN TurnResolve(a)
    ELSE [a EXCEPT !.phase = "ttsSse", !.activeReader = "reading"]

\* stop() of the controller, without its stopActiveAudioPlayback() call.
turnStop(a) ==
    CloseActiveSocket(
        IF a.activeReader # "none"
        THEN CancelActiveReader([a EXCEPT !.isStopped = TRUE])
        ELSE [a EXCEPT !.isStopped = TRUE])

(* Actions *)

\* agentVoiceChatStream, agentTextChatStream or agentResumeStream is called.
TurnStart(variant) ==
    /\ agent.phase = "none"
    /\ agent' = LET a == [Task0(agent) EXCEPT
                              !.stream = variant, !.done = "pending",
                              !.resumeState = IF variant = "resume" THEN SavedRecord ELSE @]
                 IN  IF variant = "voice"
                     THEN [a EXCEPT !.phase = "stt"]
                     ELSE TurnOpenAgentSocket(a)
    /\ UNCHANGED <<ctl, tts, stt, pure, play>>

\* transcribeAudio returns.
TurnSttReturns ==
    /\ agent.phase = "stt"
    /\ agent' = LET a == Task0(agent)
                 IN  IF a.isStopped THEN TurnResolve(a) ELSE TurnOpenAgentSocket(a)
    /\ UNCHANGED <<ctl, tts, stt, pure, play>>

\* transcribeAudio throws.
TurnSttThrows ==
    /\ agent.phase = "stt"
    /\ agent' = TurnCatch(Task0(agent))
    /\ UNCHANGED <<ctl, tts, stt, pure, play>>

TurnOpen ==
    /\ agent.phase # "none"
    /\ agent.readyState = "CONNECTING"
    /\ agent' = agentOnopen(Task0(agent))
    /\ UNCHANGED <<ctl, tts, stt, pure, play>>

TurnToolCalls(calls) ==
    /\ agent.readyState = "OPEN"
    /\ agent.msgs < MaxAgentMsgs
    /\ Len(agent.handlers) < MaxBatches
    /\ agent' = [onToolCalls(Task0(agent), calls) EXCEPT !.msgs = @ + 1]
    /\ UNCHANGED <<ctl, tts, stt, pure, play>>

\* executeTool settles for the call that batch b is waiting on.
TurnToolReturns(b, throws) ==
    /\ b \in 1..Len(agent.handlers)
    /\ agent.handlers[b].pc = "running"
    /\ agent' = LET h == agent.handlers[b]
                 IN  AfterExecute(Task0(agent), b, executeSingleToolCall(h.calls[h.i], throws))
    /\ UNCHANGED <<ctl, tts, stt, pure, play>>

TurnAgentDone(final_reply) ==
    /\ agent.readyState = "OPEN"
    /\ agent.msgs < MaxAgentMsgs
    /\ agent' = Continue([onAgentDone(Task0(agent), final_reply) EXCEPT
                              !.msgs = @ + 1,
                              !.terminal = IF @ = "none" THEN "agent_done" ELSE @])
    /\ UNCHANGED <<ctl, tts, stt, pure, play>>

TurnErrorMsg ==
    /\ agent.readyState = "OPEN"
    /\ agent.msgs < MaxAgentMsgs
    /\ agent' = Continue([onAgentError(ReportError(Task0(agent))) EXCEPT
                              !.msgs = @ + 1,
                              !.terminal = IF @ = "none" THEN "error" ELSE @])
    /\ UNCHANGED <<ctl, tts, stt, pure, play>>

\* The agent connection fails: the error event, then the close event.
TurnTransportFail ==
    /\ agent.readyState \in {"CONNECTING", "OPEN"}
    /\ agent' = Continue(agentOnclose(Continue(agentOnerror(
                    ReportError([Task0(agent) EXCEPT !.readyState = "CLOSED"])))))
    /\ UNCHANGED <<ctl, tts, stt, pure, play>>

\* The close event of the agent socket alone.
TurnClose ==
    /\ agent.readyState \in {"OPEN", "CLOSING"}
    /\ agent' = Continue(agentOnclose([Task0(agent) EXCEPT !.readyState = "CLOSED"]))
    /\ UNCHANGED <<ctl, tts, stt, pure, play>>

\* collectTtsViaWebSocket returns.
TurnTtsReturns(nChunks) ==
    /\ agent.phase = "ttsWs"
    /\ agent' = AfterTts(Task0(agent), nChunks)
    /\ UNCHANGED <<ctl, tts, stt, pure, play>>

\* collectTtsViaWebSocket throws.
TurnTtsThrows ==
    /\ agent.phase = "ttsWs"
    /\ agent' = AfterTtsWsThrow(Task0(agent))
    /\ UNCHANGED <<ctl, tts, stt, pure, play>>

\* collectTtsViaSse returns.
TurnSseReturns(nChunks) ==
    /\ agent.phase = "ttsSse"
    /\ agent' = AfterTts(Task0(agent), nChunks)
    /\ UNCHANGED <<ctl, tts, stt, pure, play>>

\* collectTtsViaSse throws.
TurnSseThrows ==
    /\ agent.phase = "ttsSse"
    /\ agent' = TurnCatch(Task0(agent))
    /\ UNCHANGED <<ctl, tts, stt, pure, play>>

\* playBufferedAudio resolves (the audio ended, or it was stopped).
TurnPlaybackReturns ==
    /\ agent.phase = "playback"
    /\ agent' = TurnResolve(Task0(agent))
    /\ UNCHANGED <<ctl, tts, stt, pure, play>>

\* playBufferedAudio rejects.
TurnPlaybackThrows ==
    /\ agent.phase = "playback"
    /\ agent' = TurnCatch(Task0(agent))
    /\ UNCHANGED <<ctl, tts, stt, pure, play>>

\* stop() of the controller.
TurnStop ==
    /\ agent.phase # "none"
    /\ play.stops < MaxStops
    /\ agent' = turnStop(Task0(agent))
    /\ play' = [stopActiveAudioPlayback(play) EXCEPT !.stops = @ + 1]
    /\ UNCHANGED <<ctl, tts, stt, pure>>

InitTurn ==
    /\ agent = [AgentInit(NoRecord) EXCEPT !.page = "ready"]
    /\ play = PlayInit
    /\ ctl = CtlInit("text")
    /\ tts = TtsIdle
    /\ stt = SttIdle
    /\ pure = PureIdle

NextTurn ==
    \/ \E variant \in {"voice", "text", "resume"} : TurnStart(variant)
    \/ TurnSttReturns
    \/ TurnSttThrows
    \/ TurnOpen
    \/ \E calls \in TurnBatches : TurnToolCalls(calls)
    \/ \E b \in 1..MaxBatches, throws \in BOOLEAN : TurnToolReturns(b, throws)
    \/ \E final_reply \in Replies : TurnAgentDone(final_reply)
    \/ TurnErrorMsg
    \/ TurnTransportFail
    \/ TurnClose
    \/ \E nChunks \in {0, 1} : TurnTtsReturns(nChunks)
    \/ TurnTtsThrows
    \/ \E nChunks \in {0, 1} : TurnSseReturns(nChunks)
    \/ TurnSseThrows
    \/ TurnPlaybackReturns
    \/ TurnPlaybackThrows
    \/ TurnStop

SpecTurn == InitTurn /\ [][NextTurn]_vars

----------------------------------------------------------------------------
(* Claims about a turn of a stream controller (SpecTurn) *)

Settled(a) == a.done \in {"resolved", "rejected"}

\* The step is a stop() call.
StopStep == play'.stops = play.stops + 1

\* C21: donePromise is settled by one resolve() or reject() call and by no
\* second one, whatever the socket events, tool completions and stop() calls:
\* once settled it keeps its outcome, and the executor has ended exactly when
\* it is settled.
C21_DoneSettlesOnce ==
    [][ /\ agent'.settleCalls <= 1
        /\ Settled(agent) => agent'.done = agent.done
        /\ Settled(agent') <=> agent'.settleCalls = 1
        /\ Settled(agent') <=> agent'.phase = "finished" ]_vars

\* C21 witness: a turn with a tool batch and a stop() ended rejected.
C21_Witness ==
    /\ agent.done = "rejected"
    /\ agent.settleCalls = 1
    /\ agent.handlers # <<>>
    /\ agent.isStopped

\* C22 as stated: onError is called at most once in a turn.
C22_OnErrorAtMostOnce == agent.onErrorCalls <= 1

C24_StopEndsBatch ==
    [][ (agent.isStopped /\ LogIndexes(agent', "return") # {}) =>
          /\ LogIndexes(agent', "exec") = {}
          /\ LogIndexes(agent', "save") = {}
          /\ LogIndexes(agent', "send") = {} ]_vars

\* C25: when the executor of call i of a batch settles, by a result or by a
\* failure, the call has a result with its call_id; the next call of the batch
\* is started in the same task, or, after the last call, the batch ends and,
\* the socket being open, its tool_results frame is sent with one result per
\* call.
C25_FailedToolDoesNotStall ==
    [][ \A k \in LogIndexes(agent', "return") :
          LET e     == agent'.log[k]
              h     == agent.handlers[e.b]
              h1    == agent'.handlers[e.b]
              frame == agent'.sent[Len(agent'.sent)]
          IN  IF e.i < Len(h.calls)
              THEN /\ h1.pc = "running"
                   /\ h1.i = e.i + 1
                   /\ ResultsMatch(h1.results, SubSeq(h.calls, 1, e.i))
                   /\ \E k2 \in LogIndexes(agent', "exec") :
                         k2 > k /\ agent'.log[k2] = Event("exec", e.b, e.i + 1, <<>>)
              ELSE /\ h1.pc = "done"
                   /\ agent.readyState = "OPEN" =>
                         /\ Len(agent'.sent) = Len(agent.sent) + 1
                         /\ frame.type = "tool_results"
                         /\ ResultsMatch(frame.results, h.calls)
                         /\ SubSeq(frame.results, 1, e.i - 1) = h.results ]_vars

\* C25 witness: the first call of a batch failed, the second ran, and the
\* frame with both results was sent.
C25_Witness ==
    /\ agent.log # <<>>
    /\ agent.log[Len(agent.log)].ev = "send"
    /\ agent.sent[Len(agent.sent)] =
          [type |-> "tool_results",
           results |-> <<ToolResult("a", "Hata"), ToolResult("b", "executed")>>]

\* C30 as stated: in a task after agent_done or error was received no call is
\* started and no tool_results frame is sent.
C30_LoopEndsAtTerminal ==
    [][ agent.terminal # "none" =>
          /\ LogIndexes(agent', "exec") = {}
          /\ LogIndexes(agent', "send") = {} ]_vars

----------------------------------------------------------------------------
(* Claims about the acks of the TTS WebSocket (SpecTts) *)

AckSeqs(sent) == {sent[k].last_seq : k \in {j \in 1..Len(sent) : sent[j].type = "ack"}}

\* C26: the task that accepts an audio chunk sends, the socket being open, an
\* ack whose last_seq is the chunk's seq, which is the new highestSeqSeen; no
\* ack carries more than the highest seq accepted so far; and highestSeqSeen
\* changes only in a task that accepts a chunk.
C26_AckAfterAccepted ==
    /\ [](\A q \in AckSeqs(tts.sent) : q <= HighestBuffered(tts.chunks))
    /\ [][ /\ \A s \in 0..MaxSeq :
                (TtsAudio(s) /\ s > tts.highestSeqSeen) =>
                    /\ tts'.highestSeqSeen = s
                    /\ tts'.sent = Append(tts.sent, [type       |-> "ack",
                                                     request_id |-> tts.requestId,
                                                     last_seq   |-> s])
           /\ tts'.highestSeqSeen # tts.highestSeqSeen =>
                    tts'.chunks = Append(tts.chunks, tts'.highestSeqSeen) ]_vars

\* C26 witness: seq 2 was accepted after seq 1 and acknowledged.
C26_Witness ==
    /\ tts.highestSeqSeen = 2
    /\ tts.chunks = <<1, 2>>
    /\ tts.lastMsg.type = "audio"
    /\ tts.sent[Len(tts.sent)] = [type |-> "ack", request_id |-> tts.requestId, last_seq |-> 2]

----------------------------------------------------------------------------
(* Claims about the URL and payload helpers (SpecPure) *)

Returned(fn) == pure.pc = "returned" /\ pure.fn = fn

\* C27 as stated: toWebSocketUrl returns a URL for every base URL; it does
\* not throw.
C27_NeverThrows == Returned("toWebSocketUrl") => ~pure.out.threw

\* C28: isAudioSsePayload is true exactly for a payload whose audio field is
\* a string and whose type is absent or "audio": true for {audio} and for
\* {type: "audio", audio}, false for {type: "audio_done"} and for an audio
\* string with any other type.
C28_AudioPayload ==
    Returned("isAudioSsePayload") =>
        LET p == pure.arg
        IN  /\ pure.out = ( /\ p.audio \in {"''", "'YWJj'"}
                            /\ p.type \in {"undefined", "'audio'"} )
            /\ (p.audio = "'YWJj'" /\ p.type = "undefined") => pure.out
            /\ (p.audio = "'YWJj'" /\ p.type = "'audio'") => pure.out
            /\ (p.audio = "undefined" /\ p.type = "'audio_done'") => ~pure.out
            /\ (p.audio = "'YWJj'" /\ p.type \notin {"undefined", "'audio'"}) => ~pure.out

\* C28 witness: an audio string with type "audio_done" was refused.
C28_Witness ==
    /\ Returned("isAudioSsePayload")
    /\ pure.arg = [audio |-> "'YWJj'", type |-> "'audio_done'"]
    /\ ~pure.out

\* C29 as stated: shouldAutoListenAfterAudio is true only with accessibility
\* mode on and the widget neither recording nor busy.
C29_OnlyInAccessibilityMode ==
    Returned("shouldAutoListenAfterAudio") =>
        (pure.out => (pure.arg[1] /\ ~pure.arg[3] /\ ~pure.arg[4]))

----------------------------------------------------------------------------
(* Claims about a done that reports no more than was received (SpecTts) *)

\* The last message on the socket was a done whose last_seq is absent, equal to
\* or less than highestSeqSeen.
BehindDone(t) ==
    /\ t.lastMsg.type = "done"
    /\ t.lastMsg.seq = Absent \/ t.lastMsg.seq <= t.highestSeqSeen

\* C32 as stated: an attempt whose done reported a last_seq that is absent,
\* equal to or less than highestSeqSeen always settles resolved.
C32_BehindDoneAlwaysResolves ==
    [][ (AttemptSettles /\ BehindDone(tts)) =>
            tts'.outcome.mode = "resolve" /\ tts'.pc = "returned" ]_vars

\* C32 amended: such a done marks the attempt complete and records no error,
\* whatever the transport reports afterwards; the attempt then settles resolved
\* with every chunk kept, unless the controller was stopped before the socket's
\* close event, in which case it is rejected with stream_stopped (never with a
\* sequence error); and whenever an attempt resolves, highestSeqSeen is at
\* least the last_seq its done reported.
C32_BehindDoneCompletes ==
    [][ /\ \A s \in {Absent} \cup (0..MaxSeq) :
              (TtsDone(s) /\ (s = Absent \/ s <= tts.highestSeqSeen)) =>
                  /\ tts'.done
                  /\ tts'.finalError = tts.finalError
                  /\ tts'.highestSeqSeen = tts.highestSeqSeen
                  /\ tts'.chunks = tts.chunks
        /\ (AttemptSettles /\ BehindDone(tts)) =>
              IF ctl.isStopped
              THEN tts'.outcome = [mode  |-> "reject",
                                   error |-> buildError("stream_stopped", FALSE)]
              ELSE /\ tts'.outcome.mode = "resolve"
                   /\ tts'.pc = "returned"
                   /\ tts'.chunks = tts.chunks
        /\ (AttemptSettles /\ tts'.outcome.mode = "resolve") =>
              /\ tts.lastMsg.type = "done"
              /\ tts.lastMsg.seq # Absent => tts'.highestSeqSeen >= tts.lastMsg.seq
      ]_vars

\* C32 witness: done{last_seq: 1} after seq 2 was received: the attempt is
\* marked complete and its socket is closing with no error recorded.
C32_Witness ==
    /\ tts.lastMsg = Msg("done", 1, "undefined")
    /\ tts.highestSeqSeen = 2
    /\ tts.done
    /\ tts.finalError = NullError
    /\ tts.readyState = "CLOSING"

----------------------------------------------------------------------------
(* Claims about audio messages with seq 0 or no seq (SpecTts) *)

\* C40: a collectTtsViaWebSocket call starts with highestSeqSeen = 0 and an
\* empty buffer; an audio message with seq 0 or without a numeric seq is never
\* buffered and leaves highestSeqSeen as it is, and it is answered in the same
\* task with an ack carrying that unchanged highestSeqSeen.
C40_ZeroSeqAckedNotBuffered ==
    [][ /\ (tts.pc = "idle" /\ tts'.pc # "idle") =>
              tts'.highestSeqSeen = 0 /\ tts'.chunks = <<>>
        /\ \A s \in {Absent, 0} :
              TtsAudio(s) =>
                  /\ tts'.chunks = tts.chunks
                  /\ tts'.highestSeqSeen = tts.highestSeqSeen
                  /\ tts'.sent = Append(tts.sent, [type       |-> "ack",
                                                   request_id |-> tts.requestId,
                                                   last_seq   |-> tts.highestSeqSeen])
      ]_vars

\* C40 witness: the first message of a request is an audio without seq: nothing
\* is buffered and the ack names seq 0.
C40_Witness ==
    /\ tts.lastMsg = Msg("audio", Absent, "undefined")
    /\ tts.msgCount = 1
    /\ tts.chunks = <<>>
    /\ tts.highestSeqSeen = 0
    /\ tts.sent = <<[type |-> "start", request_id |-> "r1", last_seq |-> 0],
                    [type |-> "ack", request_id |-> "r1", last_seq |-> 0]>>

----------------------------------------------------------------------------
(* Claims about stop() during the TTS WebSocket collection (SpecTts) *)

\* stop() was called while collectTtsViaWebSocket was connecting, receiving or
\* sleeping before a reconnect (a controller stopped earlier never starts it).
StoppedInTtsWs == ctl.isStopped /\ ctl.pc = "tts_ws"

\* C36: once stop() was called during the TTS WebSocket collection, no socket
\* is opened and no retry delay is started, no SSE collection is started, no
\* playback starts, hideAgentCursor is not invoked, and the controller's done
\* is resolved when the collection ends, never rejected.
C36_StopEndsTtsCollection ==
    [][ StoppedInTtsWs =>
            /\ tts'.socketsOpened = tts.socketsOpened
            /\ tts'.delaysWaited = tts.delaysWaited
            /\ tts'.pc # "returned"
            /\ ctl'.sseCalls = ctl.sseCalls
            /\ ctl'.pc \in {"tts_ws", "resolved"}
            /\ ~ctl'.cursorHidden
            /\ tts'.pc = "thrown" =>
                    /\ tts'.thrownError = buildError("stream_stopped", FALSE)
                    /\ ctl'.pc = "resolved" ]_vars

\* C36 witness: stopped while waiting the first retry delay; the delay elapsed,
\* no second socket was opened and done resolved.
C36_Witness ==
    /\ ctl.isStopped
    /\ ctl.pc = "resolved"
    /\ tts.pc = "thrown"
    /\ tts.thrownError = buildError("stream_stopped", FALSE)
    /\ tts.delaysWaited = <<250>>
    /\ tts.socketsOpened = 1
    /\ ctl.sseCalls = 0
    /\ ~ctl.cursorHidden

----------------------------------------------------------------------------
(* Claims about pushChunk and the chunk frames (SpecStt) *)

\* C34: pushChunk with a zero-byte chunk returns an already-resolved promise
\* and changes nothing: no frame is sent, no link is chained on sendQueue, no
\* link in flight is advanced or dropped, and seq stays as it is.
C34_EmptyChunkIgnored ==
    [][ PushChunk(0) =>
            /\ stt'.lastPush = Push(0, "resolved")
            /\ stt'.sent = stt.sent
            /\ stt'.sendQueue = stt.sendQueue
            /\ stt'.nextId = stt.nextId
            /\ stt'.dropped = stt.dropped
            /\ stt'.seq = stt.seq ]_vars

\* C34 witness: a zero-byte chunk pushed on a running session, after one chunk
\* frame was sent and while the next chunk is being encoded.
C34_Witness ==
    /\ stt.lastPush = Push(0, "resolved")
    /\ ~stt.stopped
    /\ stt.readyState = "OPEN"
    /\ stt.startPromise = "resolved"
    /\ stt.seq = 1
    /\ SentOfType("chunk") # {}
    /\ Len(stt.sendQueue) = 1
    /\ Head(stt.sendQueue).pc = "encoding"

ChunkFrames(sent) == SelectSeq(sent, LAMBDA f : f.type = "chunk")

\* C38: the chunk frames sent on the socket carry seq 1, 2, ... in the order
\* they leave, which is the order of the pushChunk calls that queued them; a
\* step sends at most one chunk frame, that of the oldest link in flight, and
\* seq never decreases.
C38_ChunkFramesInOrder ==
    /\ [] LET cf == ChunkFrames(stt.sent) IN
            /\ \A i \in 1..Len(cf) : cf[i].seq = i
            /\ \A i, j \in 1..Len(cf) : i < j => cf[i].id < cf[j].id
            /\ Len(cf) <= stt.seq
    /\ [][ LET cf == ChunkFrames(stt.sent) 
               cg == ChunkFrames(stt'.sent) IN
           /\ stt'.seq >= stt.seq
           /\ cg # cf =>
                 /\ stt.sendQueue # <<>>
                 /\ cg = Append(cf, SttFrame("chunk", stt.seq + 1,
                                             Head(stt.sendQueue).id,
                                             Head(stt.sendQueue).early)) ]_vars

\* C38 witness: two chunks pushed before the start_ack (both links pending at
\* once) went out as seq 1 and seq 2, and a third one is being encoded.
C38_Witness ==
    /\ ChunkFrames(stt.sent) = <<SttFrame("chunk", 1, 1, TRUE), SttFrame("chunk", 2, 2, TRUE)>>
    /\ Len(stt.sendQueue) = 1
    /\ Head(stt.sendQueue).pc = "encoding"

----------------------------------------------------------------------------
(* Claims about the sockets of a settled turn (SpecTurn) *)

\* C37 as stated: once done is settled, neither the agent socket nor the TTS
\* socket of the turn is connecting or open.
C37_SocketsClosedWhenSettled ==
    Settled(agent) =>
        /\ agent.readyState \notin {"CONNECTING", "OPEN"}
        /\ agent.ttsReadyState \notin {"CONNECTING", "OPEN"}

----------------------------------------------------------------------------
(* Claims about the error messages of a failed turn (SpecTurn) *)

\* C33 as stated: when a text turn that was not stopped has failed, the chat
\* window has appended exactly one error message for it.
C33_OneErrorMessage ==
    (agent.stream = "text" /\ agent.done = "rejected" /\ ~agent.isStopped) =>
        agent.chatErrors = 1

----------------------------------------------------------------------------
(* Claims about what a stop leaves behind (SpecPlayLive) *)

\* A playBufferedAudio call that began before some stopActiveAudioPlayback()
\* call is still awaiting play() or the end of playback.
InFlightAfterStop(t) ==
    /\ play.tasks[t].pc \in {"awaitPlay", "awaitEnd"}
    /\ play.stops > play.tasks[t].stopsAtStart

\* C35 as stated: every playBufferedAudio call that was in flight when
\* stopActiveAudioPlayback() was called eventually settles, and the registry
\* of active elements eventually becomes empty.
C35_StopSettlesPlayback ==
    /\ \A t \in PlayTasks :
          [](InFlightAfterStop(t) => <>(play.tasks[t].pc = "settled"))
    /\ [](play.stops > 0 => <>(play.activeAudioElements = {}))

----------------------------------------------------------------------------
(* Claims about concurrent playback (SpecPlay) *)

\* C39 as stated: the element of a speakText call (an intermediate reply) and
\* the element of a stream's own playBufferedAudio call (the final reply) are
\* never in the registry of active elements together.
C39_OneElementAtATime ==
    \A t, u \in play.activeAudioElements :
        ~(play.tasks[t].kind = "speakText" /\ play.tasks[u].kind = "playBufferedAudio")

----------------------------------------------------------------------------
(* Claims about the turn a finished recording starts (SpecStt) *)

\* C31 as stated: a recording whose recorder.onstop called stop() starts at
\* most one agent turn, through the transcript only when stop() resolved; and
\* it has started one as soon as the promise of stop() is settled or the
\* session's socket is closed.
C31_ExactlyOneTurn ==
    /\ stt.turnsWs + stt.turnsHttp <= 1
    /\ stt.turnsWs = 1 => stt.donePromise = "resolved"
    /\ stt.turnsHttp = 1 => stt.donePromise = "rejected"
    /\ (stt.onstop # "idle" /\ (stt.donePromise # "pending" \/ stt.readyState = "CLOSED")) =>
          stt.turnsWs + stt.turnsHttp = 1

====
